---------------------------- MODULE Spec2Model ----------------------------
(***************************************************************************)
(* Model of the Korea Tourism Organization API client                      *)
(* (src/lib/api/tour-api.ts) and of the error formatter that its callers   *)
(* use (error-handler.ts, carried in src/app/places/[contentId]/page.tsx). *)
(*                                                                         *)
(* One behaviour is one logical endpoint call: an endpoint function        *)
(* validates its arguments and enters fetchTourApi, which builds the       *)
(* query, awaits fetch(), awaits response.json(), checks the result code,  *)
(* normalizes body.items.item and returns, or throws.                      *)
(***************************************************************************)
EXTENDS Integers, Sequences, FiniteSets, TLC

(***************************************************************************)
(* Bounds of the model.                                                    *)
(***************************************************************************)
\* longest string argument (keyword, areaCode, contentId) an endpoint gets
MaxStrLen == 2
\* longest item array in a response envelope
MaxItems == 2
\* number of endpoint calls running at the same time
MaxCalls == 2
\* number of tourism content types getTypeStats counts (CONTENT_TYPE has 8)
MaxTypes == 2
\* largest totalCount a count request answers
MaxCount == 2
\* largest totalPages the pagination is rendered with
MaxPages == 8
MaxRequests == 3

(***************************************************************************)
(* JavaScript values.  Every value is a tagged record so that values of    *)
(* different types can be compared.  A string is a sequence of characters. *)
(***************************************************************************)
Undefined == [t |-> "undefined"]
Null == [t |-> "null"]
Str(s) == [t |-> "string", s |-> s]
Num(n) == [t |-> "number", n |-> n]

Chars == {"a", " "}

StringsUpTo(n) == UNION {[1..k -> Chars] : k \in 0..n}

\* JavaScript truthiness of a value: if (v), !v, a || b
Truthy(v) ==
    CASE v.t = "string" -> v.s # <<>>
      [] v.t = "number" -> v.n # 0
      [] v.t = "object" -> TRUE
      [] v.t = "array" -> TRUE
      [] OTHER -> FALSE

\* String.prototype.trim on a sequence of characters
RECURSIVE TrimStart(_)
TrimStart(s) ==
    IF s # <<>> /\ Head(s) = " " THEN TrimStart(Tail(s)) ELSE s

RECURSIVE TrimEnd(_)
TrimEnd(s) ==
    IF s # <<>> /\ s[Len(s)] = " " THEN TrimEnd(SubSeq(s, 1, Len(s) - 1)) ELSE s

Trim(s) == TrimEnd(TrimStart(s))

\* String(n) for a non-negative integer: its decimal digits
DigitChar(d) ==
    CASE d = 0 -> "0" [] d = 1 -> "1" [] d = 2 -> "2" [] d = 3 -> "3"
      [] d = 4 -> "4" [] d = 5 -> "5" [] d = 6 -> "6" [] d = 7 -> "7"
      [] d = 8 -> "8" [] d = 9 -> "9"

RECURSIVE ToDecimal(_)
ToDecimal(n) ==
    IF n < 10 THEN <<DigitChar(n)>>
    ELSE Append(ToDecimal(n \div 10), DigitChar(n % 10))

\* the string a URLSearchParams entry holds for a value
ToQueryString(v) ==
    CASE v.t = "string" -> v.s
      [] v.t = "number" -> ToDecimal(v.n)
      [] v.t = "null" -> <<"n", "u", "l", "l">>
      [] OTHER -> <<"u", "n", "d", "e", "f", "i", "n", "e", "d">>

(***************************************************************************)
(* Errors.  An Error object is a record of the properties the code sets    *)
(* and reads: its class, its message, and the ad-hoc properties status,    *)
(* apiCode and isNetworkError.  A message is the literal of its template   *)
(* plus the interpolated text.                                             *)
(***************************************************************************)
NoStatus == 0
NoCode == "<unset>"

MkError(name, text, arg) ==
    [name |-> name, text |-> text, arg |-> arg,
     status |-> NoStatus, apiCode |-> NoCode, isNetworkError |-> FALSE]

NoError == MkError("<none>", "", "")

\* the substrings, among those the code searches for, that a text contains
\* (String.prototype.includes is case sensitive)
MarkersOf(s) ==
    CASE s = "fetch failed" -> {"fetch"}
      [] s = "Failed to fetch" -> {"fetch", "Failed to fetch"}
      [] s = "NetworkError when attempting to fetch resource." -> {"fetch"}
      [] s = "Load failed" -> {}
      [] OTHER -> {}

\* error.message.includes(marker)
Includes(e, marker) == marker \in (MarkersOf(e.text) \cup MarkersOf(e.arg))


(***************************************************************************)
(* What the network can answer to one HTTP GET.                            *)
(***************************************************************************)
\* exceptions fetch() rejects with when no response arrives: the TypeError
\* of each runtime (Node, Chrome, Firefox, Safari)
FetchRejections ==
    { MkError("TypeError", "fetch failed", ""),
      MkError("TypeError", "Failed to fetch", ""),
      MkError("TypeError", "NetworkError when attempting to fetch resource.", ""),
      MkError("TypeError", "Load failed", "") }

Statuses == {200, 400, 401, 403, 404, 429, 500, 502, 503, 504}

\* response.ok
Ok(status) == status >= 200 /\ status <= 299

\* response.statusText: empty (HTTP/2) or the reason phrase of the status;
\* no standard reason phrase contains one of the substrings MarkersOf knows
StatusTexts == {"", "reason phrase"}

ItemIds == {"A1", "B2"}

Obj(id) == [t |-> "object", id |-> id]
Arr(seq) == [t |-> "array", elems |-> seq]

\* the shapes of body.items.item
Objects == {Obj(id) : id \in ItemIds}

ItemShapes ==
    {Undefined, Null}
    \cup Objects
    \cup {Arr(seq) : seq \in UNION {[1..k -> Objects] : k \in 0..MaxItems}}

ResultCodes == {"0000", "INVALID_REQUEST_PARAMETER_ERROR", "SERVICE_TIMEOUT_ERROR"}
ResultMsgs == {"OK", "INVALID_REQUEST_PARAMETER_ERROR", "temporary failure"}

\* a JSON document: json is FALSE when the payload is not JSON at all,
\* hasResponse when it has the top-level "response" key, hasBody when
\* response.body exists, hasItems when body.items is an object or a string
Json(isJson, hasResponse, code, msg, hasBody, hasItems, item) ==
    [json |-> isJson, hasResponse |-> hasResponse, resultCode |-> code,
     resultMsg |-> msg, hasBody |-> hasBody, hasItems |-> hasItems, item |-> item]

NoJson == Json(FALSE, FALSE, "", "", FALSE, FALSE, Undefined)

Payloads ==
    { NoJson, Json(TRUE, FALSE, "", "", FALSE, FALSE, Undefined) }
    \cup { Json(TRUE, TRUE, "0000", "OK", FALSE, FALSE, Undefined),
           Json(TRUE, TRUE, "0000", "OK", TRUE, FALSE, Undefined) }
    \cup { Json(TRUE, TRUE, "0000", "OK", TRUE, TRUE, item) : item \in ItemShapes }
    \cup { Json(TRUE, TRUE, code, msg, FALSE, FALSE, Undefined) :
             code \in ResultCodes \ {"0000"}, msg \in ResultMsgs \ {"OK"} }
    \cup { Json(TRUE, TRUE, code, msg, TRUE, TRUE, Obj("A1")) :
             code \in ResultCodes \ {"0000"}, msg \in ResultMsgs \ {"OK"} }

Rejected(e) ==
    [kind |-> "rejected", exc |-> e, status |-> NoStatus, statusText |-> "",
     payload |-> NoJson]

Http(status, statusText, payload) ==
    [kind |-> "http", exc |-> NoError, status |-> status,
     statusText |-> statusText, payload |-> payload]

Responses ==
    { Rejected(e) : e \in FetchRejections }
    \cup { Http(st, tx, NoJson) : st \in {x \in Statuses : ~Ok(x)}, tx \in StatusTexts }
    \cup { Http(st, "", p) : st \in {x \in Statuses : Ok(x)}, p \in Payloads }

(***************************************************************************)
(* fetchTourApi, piece by piece.  A piece that can throw yields            *)
(* Return(value) or Throw(error).                                          *)
(***************************************************************************)
Return(v) == [ok |-> TRUE, value |-> v, error |-> NoError]
Throw(e) == [ok |-> FALSE, value |-> Undefined, error |-> e]

COMMON_PARAMS ==
    [MobileOS |-> Str(<<"E", "T", "C">>),
     MobileApp |-> Str(<<"M", "y", "T", "r", "i", "p">>),
     _type |-> Str(<<"j", "s", "o", "n">>)]

\* getApiKey without the "if (!key) throw"
getApiKey_NoCheck(e) ==
    Return(IF Truthy(e.NEXT_PUBLIC_TOUR_API_KEY)
           THEN e.NEXT_PUBLIC_TOUR_API_KEY
           ELSE e.TOUR_API_KEY)

\* process.env.NEXT_PUBLIC_TOUR_API_KEY || process.env.TOUR_API_KEY
getApiKey(env) ==
    LET key == IF Truthy(env.NEXT_PUBLIC_TOUR_API_KEY)
               THEN env.NEXT_PUBLIC_TOUR_API_KEY
               ELSE env.TOUR_API_KEY
    IN  IF ~Truthy(key)
        THEN Throw(MkError("Error", "API key is not configured", ""))
        ELSE Return(key)

\* { ...a, ...b }: the entries of a, overridden and extended by those of b
Spread(a, b) ==
    [k \in DOMAIN a \cup DOMAIN b |-> IF k \in DOMAIN b THEN b[k] ELSE a[k]]

\* Object.entries(params).filter(value !== undefined && value !== null && value !== "")
FilterParams(params) ==
    LET keep == {k \in DOMAIN params :
                    /\ params[k] # Undefined
                    /\ params[k] # Null
                    /\ params[k] # Str(<<>>)}
    IN  [k \in keep |-> params[k]]

\* new URLSearchParams({ serviceKey, ...COMMON_PARAMS, ...filtered }):
\* every value becomes its string
BuildSearchParams(apiKey, params) ==
    LET merged == Spread(Spread([serviceKey |-> apiKey], COMMON_PARAMS),
                         FilterParams(params))
    IN  [k \in DOMAIN merged |-> ToQueryString(merged[k])]

\* HttpError without the line "error.status = response.status"
HttpError_StatusDropped(response) ==
    MkError("Error", "API request failed: <status> ",
            IF response.statusText # "" THEN response.statusText
            ELSE "unknown error")

\* the Error thrown for a response that is not ok, with its status property
HttpError(response) ==
    [MkError("Error", "API request failed: <status> ",
             IF response.statusText # "" THEN response.statusText
             ELSE "unknown error")
       EXCEPT !.status = response.status]

\* the Error thrown for an envelope whose resultCode is not "0000"
ApiCodeError(payload) ==
    [MkError("Error", "API error: ", payload.resultMsg)
       EXCEPT !.apiCode = payload.resultCode]

\* Normalize that hands a single object on without wrapping it in a list
Normalize_Unwrapped(item) ==
    IF item.t = "array" THEN item
    ELSE IF Truthy(item) THEN item
    ELSE Arr(<<>>)

\* Array.isArray(items) ? items : items ? [items] : []
Normalize(item) ==
    IF item.t = "array" THEN item
    ELSE IF Truthy(item) THEN Arr(<<item>>)
    ELSE Arr(<<>>)

\* the TypeError of reading a property of undefined
PropertyOfUndefined == MkError("TypeError", "Cannot read properties of undefined", "")

\* Decode without the result code check
Decode_NoCodeCheck(payload) ==
    IF ~payload.json
    THEN Throw(MkError("SyntaxError", "Unexpected token in JSON", ""))
    ELSE IF ~payload.hasResponse \/ ~payload.hasBody \/ ~payload.hasItems
    THEN Throw(PropertyOfUndefined)
    ELSE Return(Normalize(payload.item))

\* Decode that reads response.body.items.item before it checks the result code
Decode_BodyFirst(payload) ==
    IF ~payload.json
    THEN Throw(MkError("SyntaxError", "Unexpected token in JSON", ""))
    ELSE IF ~payload.hasResponse \/ ~payload.hasBody \/ ~payload.hasItems
    THEN Throw(PropertyOfUndefined)
    ELSE IF payload.resultCode # "0000"
    THEN Throw(ApiCodeError(payload))
    ELSE Return(Normalize(payload.item))

\* the try block from "const data = await response.json()" on
Decode(payload) ==
    IF ~payload.json
    THEN Throw(MkError("SyntaxError", "Unexpected token in JSON", ""))
    ELSE IF payload.hasResponse /\ payload.resultCode # "0000"
    THEN Throw(ApiCodeError(payload))
    ELSE IF ~payload.hasResponse \/ ~payload.hasBody \/ ~payload.hasItems
    THEN Throw(PropertyOfUndefined)
    ELSE Return(Normalize(payload.item))

NetworkError ==
    [MkError("Error", "check the network connection", "")
       EXCEPT !.isNetworkError = TRUE]

\* a catch block that turns every caught error into the network error
Catch_WrapAll(e) == NetworkError

\* the catch block: what fetchTourApi throws for an error caught in its try
Catch(e) ==
    IF e.name = "TypeError" /\ Includes(e, "fetch")
    THEN NetworkError
    ELSE e


(***************************************************************************)
(* error-handler.ts: how a caller turns a thrown error into a message.     *)
(***************************************************************************)
Msg(text, arg) == [text |-> text, arg |-> arg]

\* error.message of an Error object
getErrorMessage(e) == Msg(e.text, e.arg)

\* "status" in error && typeof error.status === "number"
isApiError(e) == e.status # NoStatus

isNetworkError(e) ==
    IF e.name = "TypeError"
    THEN Includes(e, "fetch") \/ Includes(e, "network") \/ Includes(e, "Failed to fetch")
    ELSE Includes(e, "network") \/ Includes(e, "ECONNREFUSED") \/ Includes(e, "timeout")

\* formatApiError whose switch lacks "case 502"
formatApiError_No502(e) ==
    IF isNetworkError(e)
    THEN Msg("check the network connection", "")
    ELSE IF isApiError(e)
    THEN CASE e.status = 400 -> Msg("bad request: check your input", "")
           [] e.status = 401 -> Msg("authentication required: sign in", "")
           [] e.status = 403 -> Msg("access denied", "")
           [] e.status = 404 -> Msg("the requested resource was not found", "")
           [] e.status = 429 -> Msg("too many requests: try again later", "")
           [] e.status \in {500, 503} -> Msg("server problem: try again later", "")
           [] OTHER -> getErrorMessage(e)
    ELSE getErrorMessage(e)

formatApiError(e) ==
    IF isNetworkError(e)
    THEN Msg("check the network connection", "")
    ELSE IF isApiError(e)
    THEN CASE e.status = 400 -> Msg("bad request: check your input", "")
           [] e.status = 401 -> Msg("authentication required: sign in", "")
           [] e.status = 403 -> Msg("access denied", "")
           [] e.status = 404 -> Msg("the requested resource was not found", "")
           [] e.status = 429 -> Msg("too many requests: try again later", "")
           [] e.status \in {500, 502, 503} -> Msg("server problem: try again later", "")
           [] OTHER -> getErrorMessage(e)
    ELSE getErrorMessage(e)

(***************************************************************************)
(* The endpoint functions.  A call is the function's name and its          *)
(* arguments; an argument the function does not take is Undefined.         *)
(***************************************************************************)
Call(fn, areaCode, contentTypeId, keyword, contentId, pageNo, numOfRows) ==
    [fn |-> fn, areaCode |-> areaCode, contentTypeId |-> contentTypeId,
     keyword |-> keyword, contentId |-> contentId, pageNo |-> pageNo,
     numOfRows |-> numOfRows]

NoCall == Call("<none>", Undefined, Undefined, Undefined, Undefined, Undefined, Undefined)

\* a parameter whose default value replaces every argument
Default_Ignored(v, d) == d

\* a parameter's default value: used when the argument is undefined
Default(v, d) == IF v = Undefined THEN d ELSE v

\* if (v) params[key] = v
WithOptional(params, key, v) ==
    IF Truthy(v) THEN Spread(params, [k \in {key} |-> v]) ELSE params

\* the path each endpoint function passes to fetchTourApi
Endpoint(fn) ==
    CASE fn = "getAreaCode" -> "/areaCode2"
      [] fn = "getAreaBasedList" -> "/areaBasedList2"
      [] fn = "searchKeyword" -> "/searchKeyword2"
      [] fn = "getTourDetail" -> "/detailCommon2"
      [] fn = "getTourIntro" -> "/detailIntro2"
      [] fn = "getTourImages" -> "/detailImage2"

getAreaCode(c) ==
    Return(WithOptional([k \in {} |-> Undefined], "areaCode", c.areaCode))

getAreaBasedList(c) ==
    Return(WithOptional(
             WithOptional([pageNo |-> Default(c.pageNo, Num(1)),
                           numOfRows |-> Default(c.numOfRows, Num(20))],
                          "areaCode", c.areaCode),
             "contentTypeId", c.contentTypeId))

\* searchKeyword that tests only "!keyword", not the trimmed keyword
searchKeyword_NoTrimCheck(c) ==
    IF ~Truthy(c.keyword)
    THEN Throw(MkError("Error", "enter a search keyword", ""))
    ELSE Return(WithOptional(
                  WithOptional([keyword |-> Str(Trim(c.keyword.s)),
                                pageNo |-> Default(c.pageNo, Num(1)),
                                numOfRows |-> Default(c.numOfRows, Num(20))],
                               "areaCode", c.areaCode),
                  "contentTypeId", c.contentTypeId))

\* searchKeyword that sends the keyword as typed, without trim()
searchKeyword_Untrimmed(c) ==
    IF ~Truthy(c.keyword) \/ Trim(c.keyword.s) = <<>>
    THEN Throw(MkError("Error", "enter a search keyword", ""))
    ELSE Return(WithOptional(
                  WithOptional([keyword |-> c.keyword,
                                pageNo |-> Default(c.pageNo, Num(1)),
                                numOfRows |-> Default(c.numOfRows, Num(20))],
                               "areaCode", c.areaCode),
                  "contentTypeId", c.contentTypeId))

searchKeyword(c) ==
    IF ~Truthy(c.keyword) \/ Trim(c.keyword.s) = <<>>
    THEN Throw(MkError("Error", "enter a search keyword", ""))
    ELSE Return(WithOptional(
                  WithOptional([keyword |-> Str(Trim(c.keyword.s)),
                                pageNo |-> Default(c.pageNo, Num(1)),
                                numOfRows |-> Default(c.numOfRows, Num(20))],
                               "areaCode", c.areaCode),
                  "contentTypeId", c.contentTypeId))

getTourDetail(c) ==
    IF ~Truthy(c.contentId)
    THEN Throw(MkError("Error", "content id is required", ""))
    ELSE Return([contentId |-> c.contentId])

getTourIntro(c) ==
    IF ~Truthy(c.contentId) \/ ~Truthy(c.contentTypeId)
    THEN Throw(MkError("Error", "content id and type id are required", ""))
    ELSE Return([contentId |-> c.contentId, contentTypeId |-> c.contentTypeId])

getTourImages(c) ==
    IF ~Truthy(c.contentId)
    THEN Throw(MkError("Error", "content id is required", ""))
    ELSE Return([contentId |-> c.contentId])

\* the part of an endpoint function before it calls fetchTourApi
Prepare(c) ==
    CASE c.fn = "getAreaCode" -> getAreaCode(c)
      [] c.fn = "getAreaBasedList" -> getAreaBasedList(c)
      [] c.fn = "searchKeyword" -> searchKeyword(c)
      [] c.fn = "getTourDetail" -> getTourDetail(c)
      [] c.fn = "getTourIntro" -> getTourIntro(c)
      [] c.fn = "getTourImages" -> getTourImages(c)

\* Finish without the "results.length === 0" test: results[0] of an empty
\* array is undefined
Finish_NoEmptyCheck(c, results) ==
    IF c.fn \in {"getTourDetail", "getTourIntro"}
    THEN IF Len(results.elems) = 0
         THEN Return(Undefined)
         ELSE Return(results.elems[1])
    ELSE Return(results)

\* the part of an endpoint function after fetchTourApi returned results
Finish(c, results) ==
    IF c.fn \in {"getTourDetail", "getTourIntro"}
    THEN IF Len(results.elems) = 0
         THEN Throw(MkError("Error", "tour information not found", "contentId"))
         ELSE Return(results.elems[1])
    ELSE Return(results)


(***************************************************************************)
(* The state of one logical call.                                          *)
(***************************************************************************)
VARIABLES
    env,        \* process.env: the two API key variables
    call,       \* the endpoint function invoked and its arguments
    request,    \* the endpoint path and query of the HTTP GET issued
    pc,         \* where the call is: Idle, AwaitFetch, AwaitJson, Succeeded, Failed
    attempts,   \* the number of times fetch() was called
    sleeps,     \* the delays of the timers the call waited on, in order
    served,     \* the answers the network gave to the call's HTTP GETs, in order
    result,     \* the value the endpoint function returned
    error       \* the error the endpoint function threw

\* the state of the callers of the client: the statistics collection, the
\* bookmark store and its server actions, and the client components
VARIABLES
    stats,            \* one run of getRegionStats or getTypeStats
    db,               \* Clerk session, Supabase users row and bookmarks table
    bookmarkApi,      \* one run of a bookmark server action
    bookmarkButton,   \* BookmarkButton: bookmarked, loading, isUpdating
    bookmarksClient,  \* BookmarksClient: tours, selectedIds, isDeleting
    tourFilters,      \* TourFilters: sigunguCodes, loadingSigungu, requests
    syncUser,         \* useSyncUser: auth state, syncedRef, requests
    nav               \* the router: the search parameters of the current URL

apiVars == <<env, call, request, pc, attempts, sleeps, served, result, error>>

callerVars ==
    <<stats, db, bookmarkApi, bookmarkButton, bookmarksClient, tourFilters,
      syncUser, nav>>

vars == <<apiVars, callerVars>>

\* the value of a caller's variable in a behaviour the caller is no part of
NotMounted == [t |-> "undefined"]

CallersNotMounted ==
    /\ stats = NotMounted
    /\ db = NotMounted
    /\ bookmarkApi = NotMounted
    /\ bookmarkButton = NotMounted
    /\ bookmarksClient = NotMounted
    /\ tourFilters = NotMounted
    /\ syncUser = NotMounted
    /\ nav = NotMounted

Envs ==
    [NEXT_PUBLIC_TOUR_API_KEY : {Undefined, Str(<<>>), Str(<<"K", "1">>)},
     TOUR_API_KEY : {Undefined, Str(<<"K", "2">>)}]

NoRequest == [endpoint |-> "<none>", query |-> [k \in {} |-> <<>>]]

\* arguments the callers pass
OptStrings(n) == {Undefined} \cup {Str(s) : s \in StringsUpTo(n)}
AreaCodeArgs == OptStrings(1)
ContentTypeIdArgs == {Undefined, Str(<<>>), Str(<<"a">>)}
ContentIdArgs == {Undefined, Str(<<>>), Str(<<"a">>)}
KeywordArgs == OptStrings(MaxStrLen)
PageNoArgs == {Undefined, Num(2)}
NumOfRowsArgs == {Undefined, Num(10)}

Init ==
    /\ env \in Envs
    /\ call = NoCall
    /\ request = NoRequest
    /\ pc = "Idle"
    /\ attempts = 0
    /\ sleeps = <<>>
    /\ served = <<>>
    /\ result = Undefined
    /\ error = NoError
    /\ CallersNotMounted

\* the call ends by throwing e
Fails(e) ==
    /\ pc' = "Failed"
    /\ error' = e
    /\ UNCHANGED result

\* the call ends by returning v
Succeeds(v) ==
    /\ pc' = "Succeeded"
    /\ result' = v
    /\ UNCHANGED error

\* Invoke that reads the API key before the endpoint function validates
Invoke_KeyFirst(c) ==
    /\ pc = "Idle"
    /\ call' = c
    /\ UNCHANGED <<env, sleeps, served>>
    /\ UNCHANGED callerVars
    /\ LET prepared == Prepare(c)
           key == getApiKey(env)
       IN  IF ~key.ok
           THEN Fails(key.error) /\ UNCHANGED <<request, attempts>>
           ELSE IF ~prepared.ok
           THEN Fails(prepared.error) /\ UNCHANGED <<request, attempts>>
           ELSE /\ request' = [endpoint |-> Endpoint(c.fn),
                               query |-> BuildSearchParams(key.value, prepared.value)]
                /\ attempts' = attempts + 1
                /\ pc' = "AwaitFetch"
                /\ UNCHANGED <<result, error>>

\* An endpoint function is invoked: it validates its arguments, and
\* fetchTourApi reads the API key, builds the query and calls fetch().
Invoke(c) ==
    /\ pc = "Idle"
    /\ call' = c
    /\ UNCHANGED <<env, sleeps, served>>
    /\ UNCHANGED callerVars
    /\ LET prepared == Prepare(c)
           key == getApiKey(env)
       IN  IF ~prepared.ok
           THEN Fails(prepared.error) /\ UNCHANGED <<request, attempts>>
           ELSE IF ~key.ok
           THEN Fails(key.error) /\ UNCHANGED <<request, attempts>>
           ELSE /\ request' = [endpoint |-> Endpoint(c.fn),
                               query |-> BuildSearchParams(key.value, prepared.value)]
                /\ attempts' = attempts + 1
                /\ pc' = "AwaitFetch"
                /\ UNCHANGED <<result, error>>

CallGetAreaCode ==
    \E a \in AreaCodeArgs :
        Invoke(Call("getAreaCode", a, Undefined, Undefined, Undefined, Undefined, Undefined))

CallGetAreaBasedList ==
    \E a \in AreaCodeArgs, t \in ContentTypeIdArgs, p \in PageNoArgs, n \in NumOfRowsArgs :
        Invoke(Call("getAreaBasedList", a, t, Undefined, Undefined, p, n))

CallSearchKeyword ==
    \E k \in KeywordArgs, a \in AreaCodeArgs, t \in ContentTypeIdArgs,
       p \in PageNoArgs, n \in NumOfRowsArgs :
        Invoke(Call("searchKeyword", a, t, k, Undefined, p, n))

CallGetTourDetail ==
    \E id \in ContentIdArgs :
        Invoke(Call("getTourDetail", Undefined, Undefined, Undefined, id, Undefined, Undefined))

CallGetTourIntro ==
    \E id \in ContentIdArgs, t \in ContentTypeIdArgs :
        Invoke(Call("getTourIntro", Undefined, t, Undefined, id, Undefined, Undefined))

CallGetTourImages ==
    \E id \in ContentIdArgs :
        Invoke(Call("getTourImages", Undefined, Undefined, Undefined, id, Undefined, Undefined))

\* FetchSettles that issues the request again after the call has failed
FetchSettles_AfterFailure ==
    /\ pc \in {"AwaitFetch", "Failed"}
    /\ \E r \in Responses :
        /\ served' = Append(served, r)
        /\ IF r.kind = "rejected"
           THEN Fails(Catch(r.exc))
           ELSE IF ~Ok(r.status)
           THEN Fails(Catch(HttpError(r)))
           ELSE pc' = "AwaitJson" /\ UNCHANGED <<result, error>>
    /\ UNCHANGED <<env, call, request, attempts, sleeps>>
    /\ UNCHANGED callerVars

\* "await fetch(url, ...)" settles: fetch rejected, or a response arrived
\* and response.ok is tested.
FetchSettles ==
    /\ pc = "AwaitFetch"
    /\ \E r \in Responses :
        /\ served' = Append(served, r)
        /\ IF r.kind = "rejected"
           THEN Fails(Catch(r.exc))
           ELSE IF ~Ok(r.status)
           THEN Fails(Catch(HttpError(r)))
           ELSE pc' = "AwaitJson" /\ UNCHANGED <<result, error>>
    /\ UNCHANGED <<env, call, request, attempts, sleeps>>
    /\ UNCHANGED callerVars

\* "await response.json()" settles: the rest of the try block runs, and
\* the endpoint function finishes with what fetchTourApi returned.
JsonSettles ==
    /\ pc = "AwaitJson"
    /\ LET decoded == Decode(served[Len(served)].payload)
       IN  IF ~decoded.ok
           THEN Fails(Catch(decoded.error))
           ELSE LET finished == Finish(call, decoded.value)
                IN  IF finished.ok
                    THEN Succeeds(finished.value)
                    ELSE Fails(finished.error)
    /\ UNCHANGED <<env, call, request, attempts, sleeps, served>>
    /\ UNCHANGED callerVars

Next ==
    \/ CallGetAreaCode
    \/ CallGetAreaBasedList
    \/ CallSearchKeyword
    \/ CallGetTourDetail
    \/ CallGetTourIntro
    \/ CallGetTourImages
    \/ FetchSettles
    \/ JsonSettles

Spec == Init /\ [][Next]_vars

\* every await of the call settles: the runtime resolves or rejects the
\* promise of fetch() and of response.json()
FairSpec == Spec /\ WF_vars(FetchSettles) /\ WF_vars(JsonSettles)

(***************************************************************************)
(* Vocabulary of the properties.                                           *)
(***************************************************************************)
Terminal == pc \in {"Succeeded", "Failed"}

Attempting == pc \in {"AwaitFetch", "AwaitJson"}

\* the answer to the latest HTTP GET
LastResponse == served[Len(served)]

\* the HTTP statuses the design classifies Transient
TransientStatuses == {429, 500, 502, 503}

\* an HTTP failure the design classifies Fatal
FatalHttpFailure(r) ==
    r.kind = "http" /\ ~Ok(r.status) /\ r.status \notin TransientStatuses

\* a failed attempt the design classifies Transient
TransientFailure(r) ==
    \/ r.kind = "rejected"
    \/ r.kind = "http" /\ r.status \in TransientStatuses

\* the message tells the user to try again later
AdvisesRetry(m) ==
    m.text \in {"too many requests: try again later", "server problem: try again later"}

\* a 200 response whose JSON is an envelope with this result code
EnvelopeWithCode(r, code) ==
    /\ r.kind = "http" /\ Ok(r.status)
    /\ r.payload.json /\ r.payload.hasResponse
    /\ r.payload.resultCode = code

\* a 200 response whose JSON is a success envelope with body.items
SuccessEnvelope(r) ==
    /\ EnvelopeWithCode(r, "0000")
    /\ r.payload.hasBody /\ r.payload.hasItems

ListEndpoints == {"getAreaCode", "getAreaBasedList", "searchKeyword", "getTourImages"}

(***************************************************************************)
(* C1.  When the HTTP GET of a call answers 503 three times and then 200   *)
(* with a success envelope, the call returns the normalized payload of     *)
(* the fourth response after exactly 4 HTTP attempts and 3 backoff sleeps. *)
(* Stated of every finished call whose answers so far follow that          *)
(* scenario.                                                               *)
(***************************************************************************)
C1_FollowsScenario ==
    /\ served # <<>>
    /\ Len(served) <= 4
    /\ \A i \in DOMAIN served :
        IF i <= 3
        THEN served[i].kind = "http" /\ served[i].status = 503
        ELSE SuccessEnvelope(served[i])

C1_RetryUntilSuccess ==
    (Terminal /\ C1_FollowsScenario) =>
        /\ pc = "Succeeded"
        /\ attempts = 4
        /\ Len(served) = 4
        /\ Len(sleeps) = 3

(***************************************************************************)
(* C2.  A failure classified Fatal ends the call after exactly one HTTP    *)
(* attempt and no backoff sleep; an HTTP 404 on the first attempt reaches  *)
(* the caller as an error carrying status 404.                             *)
(***************************************************************************)
C2_FatalFailsAtOnce ==
    (served # <<>> /\ FatalHttpFailure(served[1])) =>
        /\ pc = "Failed"
        /\ attempts = 1
        /\ Len(served) = 1
        /\ sleeps = <<>>
        /\ error.status = served[1].status
        /\ result = Undefined

C2_Witness ==
    /\ pc = "Failed"
    /\ served # <<>> /\ served[1].kind = "http" /\ served[1].status = 404
    /\ error.status = 404
    /\ attempts = 1

(***************************************************************************)
(* C3.  With retry budget R = 3 a call makes at least 1 and at most R+1    *)
(* HTTP attempts; when every attempt fails with a Transient error it makes *)
(* exactly R+1 attempts and then throws.                                   *)
(***************************************************************************)
C3_AttemptsWithinBudget ==
    (Terminal /\ served # <<>>) =>
        /\ attempts >= 1
        /\ attempts <= 3 + 1
        /\ (\A i \in DOMAIN served : TransientFailure(served[i])) =>
                (attempts = 3 + 1 /\ pc = "Failed")

(***************************************************************************)
(* C4.  The first attempt is made without delay and the sleep after failed *)
(* attempt k is D * 2^(k-1): a call whose attempts all fail with a         *)
(* Transient error has slept D, 2D and 4D when it ends (R = 3).            *)
(***************************************************************************)
C4_BackoffSchedule ==
    /\ (attempts <= 1 => sleeps = <<>>)
    /\ (Terminal /\ served # <<>>
          /\ \A i \in DOMAIN served : TransientFailure(served[i])) =>
            /\ Len(sleeps) = 3
            /\ sleeps[1] > 0
            /\ sleeps[2] = 2 * sleeps[1]
            /\ sleeps[3] = 4 * sleeps[1]

C6_NetworkErrorRetried ==
    (Terminal /\ served # <<>>
       /\ \A i \in DOMAIN served : served[i].kind = "rejected") =>
        /\ pc = "Failed"
        /\ error.isNetworkError
        /\ attempts = 3 + 1

(***************************************************************************)
(* C7.  A 200 response whose envelope has resultCode                       *)
(* INVALID_REQUEST_PARAMETER_ERROR makes the call fail with an API error   *)
(* carrying that code after exactly one HTTP attempt and no retry; the     *)
(* error is none that the caller is told to retry.                         *)
(***************************************************************************)
C7_InvalidParameterIsFatal ==
    (Terminal /\ served # <<>>
       /\ EnvelopeWithCode(served[1], "INVALID_REQUEST_PARAMETER_ERROR")) =>
        /\ pc = "Failed"
        /\ error.apiCode = "INVALID_REQUEST_PARAMETER_ERROR"
        /\ attempts = 1
        /\ Len(served) = 1
        /\ sleeps = <<>>
        /\ result = Undefined
        /\ ~AdvisesRetry(formatApiError(error))

C7_Witness ==
    /\ pc = "Failed"
    /\ error.apiCode = "INVALID_REQUEST_PARAMETER_ERROR"
    /\ attempts = 1
    /\ served[1].payload.hasBody

(***************************************************************************)
(* C8.  A call follows the machine Idle -> Attempting -> {Succeeded,       *)
(* BackingOff, Failed}, BackingOff -> Attempting; Succeeded and Failed are *)
(* terminal: no step follows them; and a call that is attempting           *)
(* eventually reaches Succeeded or Failed, provided its awaits settle.     *)
(* A call turned down before any HTTP request (invalid argument, no API    *)
(* key) goes from Idle to Failed with no attempt made.                     *)
(***************************************************************************)
RetryState ==
    CASE pc = "Idle" -> "Idle"
      [] Attempting -> "Attempting"
      [] OTHER -> pc

C8_Step ==
    /\ ~Terminal
    /\ \/ RetryState' = RetryState
       \/ RetryState = "Idle" /\ RetryState' = "Attempting" /\ attempts' = 1
       \/ RetryState = "Idle" /\ RetryState' = "Failed" /\ attempts' = 0 /\ served' = <<>>
       \/ RetryState = "Attempting" /\ RetryState' \in {"Succeeded", "BackingOff", "Failed"}
       \/ RetryState = "BackingOff" /\ RetryState' = "Attempting"

C9_NormalizedList ==
    (Terminal /\ served # <<>> /\ SuccessEnvelope(LastResponse)
       /\ call.fn \in ListEndpoints) =>
        LET item == LastResponse.payload.item
        IN  /\ pc = "Succeeded"
            /\ result.t = "array"
            /\ (item \in {Undefined, Null}) => (result.elems = <<>>)
            /\ (item.t = "object") => (result.elems = <<item>>)
            /\ (item.t = "array") => (result.elems = item.elems)

C9_Witness ==
    /\ pc = "Succeeded"
    /\ call.fn = "getAreaBasedList"
    /\ LastResponse.payload.item = Obj("A1")
    /\ result = Arr(<<Obj("A1")>>)

(***************************************************************************)
(* C10.  For an envelope whose resultCode is not "0000" the call never     *)
(* returns a list: it throws an error carrying the envelope's resultCode   *)
(* and resultMsg, and it checks the result code before it reads            *)
(* body.items.item, so that an envelope without a body throws this error   *)
(* too.                                                                    *)
(***************************************************************************)
C10_ErrorEnvelopeThrows ==
    (Terminal /\ served # <<>>
       /\ LastResponse.kind = "http" /\ Ok(LastResponse.status)
       /\ LastResponse.payload.json /\ LastResponse.payload.hasResponse
       /\ LastResponse.payload.resultCode # "0000") =>
        /\ pc = "Failed"
        /\ result = Undefined
        /\ error.name = "Error"
        /\ error.apiCode = LastResponse.payload.resultCode
        /\ error.text = "API error: "
        /\ error.arg = LastResponse.payload.resultMsg

C10_Witness ==
    /\ pc = "Failed"
    /\ served # <<>>
    /\ ~LastResponse.payload.hasBody
    /\ LastResponse.payload.resultCode = "SERVICE_TIMEOUT_ERROR"
    /\ error.apiCode = "SERVICE_TIMEOUT_ERROR"
    /\ error.arg = "temporary failure"

(***************************************************************************)
(* The kind of error, in the design's taxonomy, that an Error object of    *)
(* the code stands for: the code marks its errors with the properties      *)
(* isNetworkError, status and apiCode, and with its message otherwise.     *)
(***************************************************************************)
ValidationTexts ==
    {"enter a search keyword", "content id is required",
     "content id and type id are required", "API key is not configured"}

ErrorClass(e) ==
    IF e.name # "Error" THEN "Unclassified"
    ELSE IF e.isNetworkError THEN "NetworkError"
    ELSE IF e.status # NoStatus THEN "HttpStatusError"
    ELSE IF e.apiCode # NoCode THEN "ApiError"
    ELSE IF e.text \in ValidationTexts THEN "ValidationError"
    ELSE IF e.text = "tour information not found" THEN "NotFoundError"
    ELSE "Unclassified"

(***************************************************************************)
(* C11.  Whatever the HTTP outcome and the shape of the JSON body, a       *)
(* finished call has returned a normalized list or record, or has thrown   *)
(* one of the classified errors NetworkError, HttpStatusError, ApiError,   *)
(* ValidationError, NotFoundError: never an unclassified error.            *)
(***************************************************************************)
C11_ResultOrClassifiedError ==
    Terminal =>
        \/ /\ pc = "Succeeded"
           /\ result.t \in {"array", "object"}
           /\ error = NoError
        \/ /\ pc = "Failed"
           /\ result = Undefined
           /\ ErrorClass(error) # "Unclassified"

(***************************************************************************)
(* C12.  The query of a request never holds a call-specific key whose      *)
(* value is undefined, null, empty or made of whitespace only.             *)
(***************************************************************************)
CallSpecificKeys(query) == DOMAIN query \ ({"serviceKey"} \cup DOMAIN COMMON_PARAMS)

C12_NoBlankParameter ==
    (request # NoRequest) =>
        \A k \in CallSpecificKeys(request.query) : Trim(request.query[k]) # <<>>

(***************************************************************************)
(* fetchTourApi on its own: called with any mapping of parameters its      *)
(* signature admits, Record<string, string | number | undefined>, up to    *)
(* the point where the request is built and fetch() is called.             *)
(***************************************************************************)
ParamKeys == {"serviceKey", "_type", "areaCode"}

ParamValues == {Undefined, Null, Str(<<>>), Str(<<" ">>), Str(<<"a">>), Num(0)}

ParamMappings == UNION {[K -> ParamValues] : K \in SUBSET ParamKeys}

FetchTourApiDirect ==
    /\ pc = "Idle"
    /\ \E params \in ParamMappings :
        /\ call' = [fn |-> "fetchTourApi", params |-> params]
        /\ LET key == getApiKey(env)
           IN  IF ~key.ok
               THEN Fails(key.error) /\ UNCHANGED <<request, attempts>>
               ELSE /\ request' = [endpoint |-> "/areaCode2",
                                   query |-> BuildSearchParams(key.value, params)]
                    /\ attempts' = attempts + 1
                    /\ pc' = "AwaitFetch"
                    /\ UNCHANGED <<result, error>>
    /\ UNCHANGED <<env, sleeps, served>>
    /\ UNCHANGED callerVars

ParamsSpec == Init /\ [][FetchTourApiDirect]_vars

NoKeyConfigured ==
    ~Truthy(env.NEXT_PUBLIC_TOUR_API_KEY) /\ ~Truthy(env.TOUR_API_KEY)

C14_NoKeyNoRequest ==
    (NoKeyConfigured /\ call # NoCall /\ Prepare(call).ok) =>
        /\ pc = "Failed"
        /\ error.text = "API key is not configured"
        /\ ErrorClass(error) = "ValidationError"
        /\ attempts = 0
        /\ served = <<>>
        /\ sleeps = <<>>
        /\ request = NoRequest

C14_Witness ==
    /\ NoKeyConfigured
    /\ call.fn = "getAreaBasedList"
    /\ pc = "Failed"
    /\ error.text = "API key is not configured"
    /\ attempts = 0

(***************************************************************************)
(* C15.  searchKeyword with an empty or whitespace-only keyword throws the *)
(* validation error and issues no HTTP request, whatever its other         *)
(* arguments.                                                              *)
(***************************************************************************)
BlankString(v) == ~Truthy(v) \/ \A i \in DOMAIN v.s : v.s[i] = " "

C15_BlankKeywordRejected ==
    (call.fn = "searchKeyword" /\ BlankString(call.keyword)) =>
        /\ pc = "Failed"
        /\ error.text = "enter a search keyword"
        /\ ErrorClass(error) = "ValidationError"
        /\ attempts = 0
        /\ served = <<>>
        /\ request = NoRequest

C15_Witness ==
    /\ call.fn = "searchKeyword"
    /\ call.keyword = Str(<<" ", " ">>)
    /\ call.areaCode = Str(<<"a">>)
    /\ ~NoKeyConfigured
    /\ pc = "Failed"
    /\ attempts = 0

(***************************************************************************)
(* C16.  getTourDetail, getTourIntro and getTourImages with a missing      *)
(* identifier throw the validation error before the API key is looked up   *)
(* and before any request: also with no key configured the error is the    *)
(* validation error, and no attempt is made.                               *)
(***************************************************************************)
MissingIdentifier ==
    \/ call.fn \in {"getTourDetail", "getTourImages"} /\ ~Truthy(call.contentId)
    \/ call.fn = "getTourIntro"
         /\ (~Truthy(call.contentId) \/ ~Truthy(call.contentTypeId))

C16_MissingIdRejectedFirst ==
    MissingIdentifier =>
        /\ pc = "Failed"
        /\ error.text \in {"content id is required", "content id and type id are required"}
        /\ ErrorClass(error) = "ValidationError"
        /\ attempts = 0
        /\ served = <<>>
        /\ sleeps = <<>>
        /\ request = NoRequest

C16_Witness ==
    /\ NoKeyConfigured
    /\ call.fn = "getTourIntro"
    /\ Truthy(call.contentId)
    /\ call.contentTypeId = Str(<<>>)
    /\ pc = "Failed"
    /\ error.text = "content id and type id are required"

(***************************************************************************)
(* C17.  getTourDetail and getTourIntro with valid identifiers return the  *)
(* first element of the list of a success envelope, and throw the          *)
(* not-found error, after the one attempt, when the list is empty; they    *)
(* never return undefined.                                                 *)
(***************************************************************************)
SingleRecordEndpoints == {"getTourDetail", "getTourIntro"}

\* the items of a success envelope, in order
ItemsOf(item) ==
    IF item.t = "array" THEN item.elems
    ELSE IF item.t = "object" THEN <<item>>
    ELSE <<>>

C17_FirstOrNotFound ==
    /\ (pc = "Succeeded") => (result # Undefined /\ result # Null)
    /\ (Terminal /\ served # <<>> /\ SuccessEnvelope(LastResponse)
          /\ call.fn \in SingleRecordEndpoints) =>
            LET items == ItemsOf(LastResponse.payload.item)
            IN  IF items = <<>>
                THEN /\ pc = "Failed"
                     /\ ErrorClass(error) = "NotFoundError"
                     /\ attempts = 1
                     /\ sleeps = <<>>
                ELSE /\ pc = "Succeeded"
                     /\ result = items[1]

C17_Witness ==
    /\ call.fn = "getTourDetail"
    /\ pc = "Failed"
    /\ served # <<>>
    /\ SuccessEnvelope(LastResponse)
    /\ LastResponse.payload.item = Arr(<<>>)
    /\ ErrorClass(error) = "NotFoundError"

Spaces(n) == [i \in 1..n |-> " "]

C20_KeywordTrimmed ==
    (call.fn = "searchKeyword" /\ request # NoRequest) =>
        LET q == request.query["keyword"]
            typed == call.keyword.s
        IN  /\ q # <<>>
            /\ Head(q) # " "
            /\ q[Len(q)] # " "
            /\ \E i \in 0..Len(typed), j \in 0..Len(typed) :
                   typed = Spaces(i) \o q \o Spaces(j)

C20_Witness ==
    /\ call.fn = "searchKeyword"
    /\ call.keyword = Str(<<" ", "a">>)
    /\ request # NoRequest
    /\ request.query["keyword"] = <<"a">>

(***************************************************************************)
(* Several endpoint calls at once.  Each call is an async function run:    *)
(* its locals (the variables above, here one copy per call) belong to it   *)
(* alone, and the runs interleave at their awaits.  What the calls share   *)
(* is the module scope: BASE_URL, COMMON_PARAMS and process.env, which no  *)
(* statement of the module assigns.                                        *)
(***************************************************************************)
Calls == 1..MaxCalls

ConcurrentEnvs ==
    { [NEXT_PUBLIC_TOUR_API_KEY |-> Undefined, TOUR_API_KEY |-> Undefined],
      [NEXT_PUBLIC_TOUR_API_KEY |-> Str(<<"K", "1">>), TOUR_API_KEY |-> Undefined] }

ConcurrentCalls ==
    { Call("getAreaCode", Undefined, Undefined, Undefined, Undefined, Undefined, Undefined),
      Call("getTourDetail", Undefined, Undefined, Undefined, Str(<<"a">>), Undefined, Undefined),
      Call("getTourDetail", Undefined, Undefined, Undefined, Str(<<>>), Undefined, Undefined),
      Call("searchKeyword", Undefined, Undefined, Str(<<" ", "a">>), Undefined, Undefined, Undefined) }

ConcurrentResponses ==
    { Rejected(MkError("TypeError", "fetch failed", "")),
      Http(503, "", NoJson),
      Http(200, "", Json(TRUE, TRUE, "0000", "OK", TRUE, TRUE, Obj("A1"))),
      Http(200, "", Json(TRUE, TRUE, "0000", "OK", TRUE, TRUE, Arr(<<>>))),
      Http(200, "", Json(TRUE, TRUE, "SERVICE_TIMEOUT_ERROR", "temporary failure",
                         FALSE, FALSE, Undefined)) }

ConcurrentInit ==
    /\ env \in ConcurrentEnvs
    /\ call = [i \in Calls |-> NoCall]
    /\ request = [i \in Calls |-> NoRequest]
    /\ pc = [i \in Calls |-> "Idle"]
    /\ attempts = [i \in Calls |-> 0]
    /\ sleeps = [i \in Calls |-> <<>>]
    /\ served = [i \in Calls |-> <<>>]
    /\ result = [i \in Calls |-> Undefined]
    /\ error = [i \in Calls |-> NoError]
    /\ CallersNotMounted

\* call i ends by throwing e
ConcurrentFails(i, e) ==
    /\ pc' = [pc EXCEPT ![i] = "Failed"]
    /\ error' = [error EXCEPT ![i] = e]
    /\ UNCHANGED result

\* call i ends by returning v
ConcurrentSucceeds(i, v) ==
    /\ pc' = [pc EXCEPT ![i] = "Succeeded"]
    /\ result' = [result EXCEPT ![i] = v]
    /\ UNCHANGED error

\* call i is invoked and runs to its first await
ConcurrentInvoke(i) ==
    /\ pc[i] = "Idle"
    /\ UNCHANGED <<env, sleeps, served>>
    /\ UNCHANGED callerVars
    /\ \E c \in ConcurrentCalls :
        /\ call' = [call EXCEPT ![i] = c]
        /\ LET prepared == Prepare(c)
               key == getApiKey(env)
           IN  IF ~prepared.ok
               THEN ConcurrentFails(i, prepared.error) /\ UNCHANGED <<request, attempts>>
               ELSE IF ~key.ok
               THEN ConcurrentFails(i, key.error) /\ UNCHANGED <<request, attempts>>
               ELSE /\ request' = [request EXCEPT ![i] =
                                     [endpoint |-> Endpoint(c.fn),
                                      query |-> BuildSearchParams(key.value, prepared.value)]]
                    /\ attempts' = [attempts EXCEPT ![i] = @ + 1]
                    /\ pc' = [pc EXCEPT ![i] = "AwaitFetch"]
                    /\ UNCHANGED <<result, error>>

\* the fetch() of call i settles
ConcurrentFetchSettles(i) ==
    /\ pc[i] = "AwaitFetch"
    /\ \E r \in ConcurrentResponses :
        /\ served' = [served EXCEPT ![i] = Append(@, r)]
        /\ IF r.kind = "rejected"
           THEN ConcurrentFails(i, Catch(r.exc))
           ELSE IF ~Ok(r.status)
           THEN ConcurrentFails(i, Catch(HttpError(r)))
           ELSE pc' = [pc EXCEPT ![i] = "AwaitJson"] /\ UNCHANGED <<result, error>>
    /\ UNCHANGED <<env, call, request, attempts, sleeps>>
    /\ UNCHANGED callerVars

\* what call i does with the response j holds once response.json() settles
ConcurrentDecode(i, j) ==
    LET decoded == Decode(served[j][Len(served[j])].payload)
    IN  IF ~decoded.ok
        THEN ConcurrentFails(i, Catch(decoded.error))
        ELSE LET finished == Finish(call[i], decoded.value)
             IN  IF finished.ok
                 THEN ConcurrentSucceeds(i, finished.value)
                 ELSE ConcurrentFails(i, finished.error)

\* a ConcurrentJsonSettles that keeps the response in a variable of the
\* module scope: the call decodes the response of whichever call fetched last
ConcurrentJsonSettles_SharedResponse(i) ==
    /\ pc[i] = "AwaitJson"
    /\ \E j \in Calls : served[j] # <<>> /\ ConcurrentDecode(i, j)
    /\ UNCHANGED <<env, call, request, attempts, sleeps, served>>
    /\ UNCHANGED callerVars

\* the response.json() of call i settles
ConcurrentJsonSettles(i) ==
    /\ pc[i] = "AwaitJson"
    /\ ConcurrentDecode(i, i)
    /\ UNCHANGED <<env, call, request, attempts, sleeps, served>>
    /\ UNCHANGED callerVars

ConcurrentNext ==
    \E i \in Calls :
        \/ ConcurrentInvoke(i)
        \/ ConcurrentFetchSettles(i)
        \/ ConcurrentJsonSettles(i)

ConcurrentSpec == ConcurrentInit /\ [][ConcurrentNext]_vars

(***************************************************************************)
(* C18.  With any number of calls running at once and any interleaving of  *)
(* their awaits, each call ends as it would running alone on the same      *)
(* arguments and responses; a step of one call changes nothing of another  *)
(* call, and no step changes the state of the module.                      *)
(***************************************************************************)
\* how a call running alone ends, given its arguments and the responses
\* to its requests
AloneOutcome(e, c, responses) ==
    LET prepared == Prepare(c)
        key == getApiKey(e)
        failed(err) == [pc |-> "Failed", result |-> Undefined, error |-> err, attempts |-> 1]
        early(err) == [pc |-> "Failed", result |-> Undefined, error |-> err, attempts |-> 0]
    IN  IF ~prepared.ok THEN early(prepared.error)
        ELSE IF ~key.ok THEN early(key.error)
        ELSE LET r == responses[1]
             IN  IF r.kind = "rejected" THEN failed(Catch(r.exc))
                 ELSE IF ~Ok(r.status) THEN failed(Catch(HttpError(r)))
                 ELSE LET decoded == Decode(r.payload)
                      IN  IF ~decoded.ok THEN failed(Catch(decoded.error))
                          ELSE LET finished == Finish(c, decoded.value)
                               IN  IF ~finished.ok THEN failed(finished.error)
                                   ELSE [pc |-> "Succeeded", result |-> finished.value,
                                         error |-> NoError, attempts |-> 1]

CallState(i) ==
    <<call[i], request[i], pc[i], attempts[i], sleeps[i], served[i], result[i], error[i]>>

C18_EndsAsAlone ==
    \A i \in Calls :
        (pc[i] \in {"Succeeded", "Failed"}) =>
            [pc |-> pc[i], result |-> result[i], error |-> error[i],
             attempts |-> attempts[i]] = AloneOutcome(env, call[i], served[i])

C18_StepIsLocal ==
    /\ env' = env
    /\ \A i, j \in Calls :
        (i # j /\ CallState(i)' # CallState(i)) => (CallState(j)' = CallState(j))

C18_CallsDoNotInterfere == []C18_EndsAsAlone /\ [][C18_StepIsLocal]_vars

C18_Witness ==
    /\ pc[1] = "Succeeded"
    /\ pc[2] = "Failed"
    /\ call[1] = call[2]
    /\ call[1].fn = "getTourDetail"
    /\ served[1] # served[2]
    /\ result[1] = Obj("A1")

(***************************************************************************)
(* C21.  Every request of getAreaBasedList and searchKeyword carries        *)
(* pageNo and numOfRows: the caller's values when given, 1 and 20 when      *)
(* omitted; areaCode and contentTypeId are in the request, with the         *)
(* caller's value, exactly when the caller gave a non-empty value.          *)
(***************************************************************************)
PagedEndpoints == {"getAreaBasedList", "searchKeyword"}

\* the caller supplied a non-empty value
Supplied(v) == v # Undefined /\ v # Null /\ v # Str(<<>>)

C21_PagingAndOptionalFilters ==
    (call.fn \in PagedEndpoints /\ request # NoRequest) =>
        LET q == request.query
        IN  /\ {"pageNo", "numOfRows"} \subseteq DOMAIN q
            /\ q["pageNo"] = IF call.pageNo = Undefined THEN <<"1">>
                             ELSE ToDecimal(call.pageNo.n)
            /\ q["numOfRows"] = IF call.numOfRows = Undefined THEN <<"2", "0">>
                                ELSE ToDecimal(call.numOfRows.n)
            /\ ("areaCode" \in DOMAIN q) <=> Supplied(call.areaCode)
            /\ ("areaCode" \in DOMAIN q) => (q["areaCode"] = call.areaCode.s)
            /\ ("contentTypeId" \in DOMAIN q) <=> Supplied(call.contentTypeId)
            /\ ("contentTypeId" \in DOMAIN q) => (q["contentTypeId"] = call.contentTypeId.s)

C21_Witness ==
    /\ call.fn = "searchKeyword"
    /\ call.pageNo = Num(2)
    /\ call.numOfRows = Undefined
    /\ call.areaCode = Str(<<>>)
    /\ call.contentTypeId = Str(<<"a">>)
    /\ request # NoRequest
    /\ request.query["pageNo"] = <<"2">>
    /\ request.query["numOfRows"] = <<"2", "0">>
    /\ "areaCode" \notin DOMAIN request.query
    /\ request.query["contentTypeId"] = <<"a">>

(***************************************************************************)
(* stats-api.ts: getRegionStats and getTypeStats.  getRegionStats awaits   *)
(* getAreaCode() (the endpoint call above), then issues one count request  *)
(* per area, all at once; getTypeStats issues one per content type.  Each  *)
(* count request is its own async arrow function with its own try/catch.   *)
(***************************************************************************)
StatsFunctions == {"getRegionStats", "getTypeStats"}

\* Object.values(CONTENT_TYPE), cut to the first MaxTypes values
CONTENT_TYPE ==
    SubSeq(<<"12", "14", "15", "25", "28", "32", "38", "39">>, 1, MaxTypes)

\* the JSON of a count response: totalCount is response.body.totalCount
CountJson(isJson, hasResponse, hasBody, totalCount) ==
    [json |-> isJson, hasResponse |-> hasResponse, hasBody |-> hasBody,
     totalCount |-> totalCount]

NoCountJson == CountJson(FALSE, FALSE, FALSE, Undefined)

\* what the network can answer to one count request: no response, an error
\* page, an error document that is not JSON, an envelope without response
\* or body, a body without or with totalCount
CountResponses ==
    { [Rejected(MkError("TypeError", "fetch failed", "")) EXCEPT !.payload = NoCountJson],
      Http(500, "", NoCountJson),
      Http(200, "", NoCountJson),
      Http(200, "", CountJson(TRUE, FALSE, FALSE, Undefined)),
      Http(200, "", CountJson(TRUE, TRUE, FALSE, Undefined)),
      Http(200, "", CountJson(TRUE, TRUE, TRUE, Undefined)) }
    \cup { Http(200, "", CountJson(TRUE, TRUE, TRUE, Num(n))) : n \in 0..MaxCount }

NoResponse ==
    [kind |-> "<none>", exc |-> NoError, status |-> NoStatus, statusText |-> "",
     payload |-> NoCountJson]

\* one count request: the async arrow function of statsPromises
CountRequest(key) ==
    [key |-> key, pc |-> "AwaitFetch", fetches |-> 1, response |-> NoResponse,
     count |-> 0]

\* areaCodes.slice(0, 10)
Slice10(seq) == SubSeq(seq, 1, IF Len(seq) < 10 THEN Len(seq) ELSE 10)

\* jsonData.response.body.totalCount || 0, and the catch block's count: 0
TotalCount(payload) ==
    IF ~payload.json \/ ~payload.hasResponse \/ ~payload.hasBody
    THEN 0
    ELSE IF Truthy(payload.totalCount) THEN payload.totalCount.n ELSE 0

\* a / b as a fraction
Ratio(a, b) == [num |-> a, den |-> b]

RECURSIVE SumOfCounts(_)
SumOfCounts(seq) ==
    IF seq = <<>> THEN 0 ELSE Head(seq).count + SumOfCounts(Tail(seq))

\* a sort that leaves the array as it is
SortByCountDesc_Unsorted(seq) == seq

\* stats.sort((a, b) => b.count - a.count): Array.prototype.sort is stable
RECURSIVE InsertByCount(_, _)
InsertByCount(sorted, x) ==
    IF sorted = <<>> THEN <<x>>
    ELSE IF Head(sorted).count >= x.count
    THEN <<Head(sorted)>> \o InsertByCount(Tail(sorted), x)
    ELSE <<x>> \o sorted

RECURSIVE SortByCountDesc(_)
SortByCountDesc(seq) ==
    IF seq = <<>> THEN <<>>
    ELSE InsertByCount(SortByCountDesc(SubSeq(seq, 1, Len(seq) - 1)), seq[Len(seq)])

\* the RegionStats / TypeStats objects made of the settled count requests
RegionStats(entries) ==
    [i \in DOMAIN entries |-> [code |-> entries[i].key, count |-> entries[i].count]]

TypeStats(entries) ==
    LET totalCount == SumOfCounts(entries)
    IN  [i \in DOMAIN entries |->
            [typeId |-> entries[i].key, count |-> entries[i].count,
             percentage |-> IF totalCount > 0
                            THEN Ratio(entries[i].count * 100, totalCount)
                            ELSE Ratio(0, 1)]]

StatsInit ==
    /\ env \in ConcurrentEnvs
    /\ call = NoCall
    /\ request = NoRequest
    /\ pc = "Idle"
    /\ attempts = 0
    /\ sleeps = <<>>
    /\ served = <<>>
    /\ result = Undefined
    /\ error = NoError
    /\ stats \in [fn : StatsFunctions, pc : {"Start"}, entries : {<<>>},
                  result : {<<>>}, error : {NoError}]
    /\ db = NotMounted
    /\ bookmarkApi = NotMounted
    /\ bookmarkButton = NotMounted
    /\ bookmarksClient = NotMounted
    /\ tourFilters = NotMounted
    /\ syncUser = NotMounted
    /\ nav = NotMounted

statsFrame ==
    <<db, bookmarkApi, bookmarkButton, bookmarksClient, tourFilters, syncUser, nav>>

\* getRegionStats: "await getAreaCode()" is the endpoint call, made without
\* an argument
StatsGetAreaCode ==
    /\ stats.fn = "getRegionStats"
    /\ stats.pc = "Start"
    /\ Invoke(Call("getAreaCode", Undefined, Undefined, Undefined, Undefined,
                   Undefined, Undefined))

\* getAreaCode() threw: the outer catch of getRegionStats rethrows
RegionStatsThrows ==
    /\ stats.fn = "getRegionStats"
    /\ stats.pc = "Start"
    /\ pc = "Failed"
    /\ stats' = [stats EXCEPT !.pc = "Thrown", !.error = error]
    /\ UNCHANGED <<apiVars, statsFrame>>

\* getAreaCode() returned: one count request per area of the first ten
RegionCountsStart ==
    /\ stats.fn = "getRegionStats"
    /\ stats.pc = "Start"
    /\ pc = "Succeeded"
    /\ LET areaCodes == Slice10(result.elems)
       IN  stats' = [stats EXCEPT
                       !.pc = "AwaitAll",
                       !.entries = [i \in DOMAIN areaCodes |-> CountRequest(areaCodes[i].id)]]
    /\ UNCHANGED <<apiVars, statsFrame>>

\* getTypeStats: reads the API key, then one count request per content type
TypeCountsStart ==
    /\ stats.fn = "getTypeStats"
    /\ stats.pc = "Start"
    /\ LET apiKey == IF Truthy(env.NEXT_PUBLIC_TOUR_API_KEY)
                     THEN env.NEXT_PUBLIC_TOUR_API_KEY
                     ELSE env.TOUR_API_KEY
       IN  IF ~Truthy(apiKey)
           THEN stats' = [stats EXCEPT
                            !.pc = "Thrown",
                            !.error = MkError("Error", "API key is not configured", "")]
           ELSE stats' = [stats EXCEPT
                            !.pc = "AwaitAll",
                            !.entries = [i \in DOMAIN CONTENT_TYPE |->
                                            CountRequest(CONTENT_TYPE[i])]]
    /\ UNCHANGED <<apiVars, statsFrame>>

\* "await fetch(...)" of count request i settles; response.ok is not tested.
\* A rejection is caught by the request's own catch: count 0.
CountFetchSettles(i) ==
    /\ stats.pc = "AwaitAll"
    /\ i \in DOMAIN stats.entries
    /\ stats.entries[i].pc = "AwaitFetch"
    /\ \E r \in CountResponses :
        stats' = [stats EXCEPT
                    !.entries[i].response = r,
                    !.entries[i].pc = IF r.kind = "rejected" THEN "Done" ELSE "AwaitJson"]
    /\ UNCHANGED <<apiVars, statsFrame>>

\* "await response.json()" of count request i settles
CountJsonSettles(i) ==
    /\ stats.pc = "AwaitAll"
    /\ i \in DOMAIN stats.entries
    /\ stats.entries[i].pc = "AwaitJson"
    /\ stats' = [stats EXCEPT
                   !.entries[i].pc = "Done",
                   !.entries[i].count = TotalCount(stats.entries[i].response.payload)]
    /\ UNCHANGED <<apiVars, statsFrame>>

\* Promise.all(statsPromises) resolves: percentages, sort, return
StatsReturns ==
    /\ stats.pc = "AwaitAll"
    /\ \A i \in DOMAIN stats.entries : stats.entries[i].pc = "Done"
    /\ stats' = [stats EXCEPT
                   !.pc = "Returned",
                   !.result = SortByCountDesc(
                                 IF stats.fn = "getRegionStats"
                                 THEN RegionStats(stats.entries)
                                 ELSE TypeStats(stats.entries))]
    /\ UNCHANGED <<apiVars, statsFrame>>

StatsNext ==
    \/ StatsGetAreaCode
    \/ FetchSettles
    \/ JsonSettles
    \/ RegionStatsThrows
    \/ RegionCountsStart
    \/ TypeCountsStart
    \/ \E i \in 1..10 : CountFetchSettles(i)
    \/ \E i \in 1..10 : CountJsonSettles(i)
    \/ StatsReturns

StatsSpec == StatsInit /\ [][StatsNext]_vars

\* the count request got no response, or a document that is no envelope
\* with a body
CountRequestFailed(r) ==
    \/ r.kind = "rejected"
    \/ r.kind = "http" /\ ~Ok(r.status)
    \/ ~r.payload.json \/ ~r.payload.hasResponse \/ ~r.payload.hasBody

(***************************************************************************)
(* C22.  The statistics functions retry a failed per-region or per-type    *)
(* count request before they give up on it: an entry whose request failed  *)
(* has been requested at least twice when the function returns.            *)
(***************************************************************************)
C22_FailedCountRequestRetried ==
    (stats.pc = "Returned") =>
        \A i \in DOMAIN stats.entries :
            CountRequestFailed(stats.entries[i].response) =>
                stats.entries[i].fetches >= 2

(***************************************************************************)
(* C25.  getRegionStats and getTypeStats never fail because a count        *)
(* request failed or answered an envelope without a body: they throw only  *)
(* before any count request is made; an entry whose request failed has     *)
(* count 0; every requested region or type is in the result exactly once,  *)
(* with its count; and the result is ordered by count, descending.         *)
(***************************************************************************)
KeyOf(stat) == IF "code" \in DOMAIN stat THEN stat.code ELSE stat.typeId

\* how often the pair of key and count occurs in a sequence of pairs
Occurrences(pairs, x) == Cardinality({i \in DOMAIN pairs : pairs[i] = x})

ContentIds == {"c1", "c2"}

\* sequences of distinct content ids: the states of the user's bookmarks
RECURSIVE Distinct(_)
Distinct(S) ==
    IF S = {} THEN {<<>>}
    ELSE UNION {{<<x>> \o rest : rest \in Distinct(S \ {x})} : x \in S}

BookmarkTables == UNION {Distinct(S) : S \in SUBSET ContentIds}

Has(rows, contentId) == \E i \in DOMAIN rows : rows[i] = contentId

\* delete ... where content_id = contentId
Without(rows, contentId) == SelectSeq(rows, LAMBDA x : x # contentId)

\* order("created_at", { ascending: false })
Reverse(rows) == [i \in DOMAIN rows |-> rows[Len(rows) + 1 - i]]

\* what can go wrong in a run besides the state of db: an exception
\* (auth(), createClerkSupabaseClient() or the client throws), an error of
\* the users query, an error of the statement on bookmarks
Faults == {"none", "throws", "usersError", "statementError"}

Bool(b) == [t |-> "boolean", b |-> b]

Success == [success |-> TRUE]

Failure(message) == [success |-> FALSE, error |-> message]

\* the result of a run: what it returned or threw, the bookmarks rows after
\* it, and how many insert and delete statements it sent
Ran(outcome, rows, inserts, deletes) ==
    [outcome |-> outcome, rows |-> rows, inserts |-> inserts, deletes |-> deletes]

\* a catch block that throws the error on
Caught_Rethrow(e) == Throw(e)

\* catch (error) { return { success: false, error: error.message } }
Caught(e) == Return(Failure(e.text))

ThrownInTry == MkError("Error", "exception in the try block", "")

\* auth(), createClerkSupabaseClient() and the users query
UserLookup(d, fault) ==
    IF fault = "throws" THEN "throws"
    ELSE IF d.userId = Null THEN "unauthenticated"
    ELSE IF fault = "usersError" \/ ~d.userRow THEN "nouser"
    ELSE "found"

addBookmark(d, contentId, fault) ==
    LET who == UserLookup(d, fault)
    IN  CASE who = "throws" -> Ran(Caught(ThrownInTry), d.bookmarks, 0, 0)
          [] who = "unauthenticated" ->
                Ran(Return(Failure("sign-in required")), d.bookmarks, 0, 0)
          [] who = "nouser" ->
                Ran(Return(Failure("user not found")), d.bookmarks, 0, 0)
          [] OTHER ->
                IF Has(d.bookmarks, contentId)
                THEN Ran(Return(Failure("already bookmarked")), d.bookmarks, 1, 0)
                ELSE IF fault = "statementError"
                THEN Ran(Return(Failure("insert failed")), d.bookmarks, 1, 0)
                ELSE Ran(Return(Success), Append(d.bookmarks, contentId), 1, 0)

removeBookmark(d, contentId, fault) ==
    LET who == UserLookup(d, fault)
    IN  CASE who = "throws" -> Ran(Caught(ThrownInTry), d.bookmarks, 0, 0)
          [] who = "unauthenticated" ->
                Ran(Return(Failure("sign-in required")), d.bookmarks, 0, 0)
          [] who = "nouser" ->
                Ran(Return(Failure("user not found")), d.bookmarks, 0, 0)
          [] OTHER ->
                IF fault = "statementError"
                THEN Ran(Return(Failure("delete failed")), d.bookmarks, 0, 1)
                ELSE Ran(Return(Success), Without(d.bookmarks, contentId), 0, 1)

\* isBookmarked ignores the error of the users query: no data is "no user"
isBookmarked(d, contentId, fault) ==
    LET who == UserLookup(d, fault)
    IN  CASE who = "throws" -> Ran(Return(Bool(FALSE)), d.bookmarks, 0, 0)
          [] who \in {"unauthenticated", "nouser"} ->
                Ran(Return(Bool(FALSE)), d.bookmarks, 0, 0)
          [] OTHER ->
                Ran(Return(Bool(fault # "statementError" /\ Has(d.bookmarks, contentId))),
                    d.bookmarks, 0, 0)

getUserBookmarks(d, fault) ==
    LET who == UserLookup(d, fault)
    IN  CASE who = "throws" -> Ran(Caught(ThrownInTry), d.bookmarks, 0, 0)
          [] who = "unauthenticated" ->
                Ran(Return(Failure("sign-in required")), d.bookmarks, 0, 0)
          [] who = "nouser" ->
                Ran(Return(Failure("user not found")), d.bookmarks, 0, 0)
          [] OTHER ->
                IF fault = "statementError"
                THEN Ran(Return(Failure("select failed")), d.bookmarks, 0, 0)
                ELSE Ran(Return([success |-> TRUE, bookmarks |-> Reverse(d.bookmarks)]),
                         d.bookmarks, 0, 0)

ServerActions == {"addBookmark", "removeBookmark", "isBookmarked", "getUserBookmarks"}

RunServerAction(fn, d, contentId, fault) ==
    CASE fn = "addBookmark" -> addBookmark(d, contentId, fault)
      [] fn = "removeBookmark" -> removeBookmark(d, contentId, fault)
      [] fn = "isBookmarked" -> isBookmarked(d, contentId, fault)
      [] fn = "getUserBookmarks" -> getUserBookmarks(d, fault)

\* the states of db: bookmarks rows reference a users row
Dbs ==
    {d \in [userId : {Null, Str(<<"u", "1">>)}, userRow : BOOLEAN,
            bookmarks : BookmarkTables] :
        ~d.userRow => d.bookmarks = <<>>}

NoOutcome == [ok |-> FALSE, value |-> Undefined, error |-> NoError]

ApiIdle ==
    /\ env = [NEXT_PUBLIC_TOUR_API_KEY |-> Str(<<"K", "1">>), TOUR_API_KEY |-> Undefined]
    /\ call = NoCall
    /\ request = NoRequest
    /\ pc = "Idle"
    /\ attempts = 0
    /\ sleeps = <<>>
    /\ served = <<>>
    /\ result = Undefined
    /\ error = NoError

BookmarkApiInit ==
    /\ ApiIdle
    /\ db \in Dbs
    /\ bookmarkApi = [fn |-> "<none>", contentId |-> "<none>", pc |-> "Idle",
                      outcome |-> NoOutcome, inserts |-> 0, deletes |-> 0]
    /\ stats = NotMounted
    /\ bookmarkButton = NotMounted
    /\ bookmarksClient = NotMounted
    /\ tourFilters = NotMounted
    /\ syncUser = NotMounted
    /\ nav = NotMounted

bookmarkApiFrame ==
    <<apiVars, stats, bookmarkButton, bookmarksClient, tourFilters, syncUser, nav>>

\* a server action is called
ServerActionCalled ==
    /\ bookmarkApi.pc \in {"Idle", "Returned"}
    /\ \E fn \in ServerActions, contentId \in ContentIds :
        bookmarkApi' = [fn |-> fn, contentId |-> contentId, pc |-> "Running",
                        outcome |-> NoOutcome, inserts |-> 0, deletes |-> 0]
    /\ UNCHANGED <<db, bookmarkApiFrame>>

\* the server action runs to its end
ServerActionSettles ==
    /\ bookmarkApi.pc = "Running"
    /\ \E fault \in Faults :
        LET ran == RunServerAction(bookmarkApi.fn, db, bookmarkApi.contentId, fault)
        IN  /\ bookmarkApi' = [bookmarkApi EXCEPT
                                 !.pc = IF ran.outcome.ok THEN "Returned" ELSE "Thrown",
                                 !.outcome = ran.outcome,
                                 !.inserts = ran.inserts,
                                 !.deletes = ran.deletes]
            /\ db' = [db EXCEPT !.bookmarks = ran.rows]
    /\ UNCHANGED bookmarkApiFrame

\* another tab or device of the user adds or removes a bookmark
BookmarkChangedElsewhere ==
    /\ db.userId # Null
    /\ db.userRow
    /\ \E contentId \in ContentIds :
        db' = [db EXCEPT !.bookmarks =
                 IF Has(db.bookmarks, contentId)
                 THEN Without(db.bookmarks, contentId)
                 ELSE Append(db.bookmarks, contentId)]

BookmarkApiElsewhere ==
    /\ BookmarkChangedElsewhere
    /\ UNCHANGED <<bookmarkApi, bookmarkApiFrame>>

BookmarkApiNext ==
    \/ ServerActionCalled
    \/ ServerActionSettles
    \/ BookmarkApiElsewhere

BookmarkApiSpec == BookmarkApiInit /\ [][BookmarkApiNext]_vars

(***************************************************************************)
(* C26.  addBookmark, removeBookmark, isBookmarked and getUserBookmarks    *)
(* never throw: a run ends by returning success, success:false with an     *)
(* error message, or a boolean; and a run for a caller who is not          *)
(* authenticated or has no users row returns failure, sends no insert and  *)
(* no delete, and leaves the bookmarks rows as they are.                   *)
(***************************************************************************)
NoUser == db.userId = Null \/ ~db.userRow

C26_Returned ==
    /\ bookmarkApi.pc # "Thrown"
    /\ (bookmarkApi.pc = "Returned") =>
          LET v == bookmarkApi.outcome.value
          IN  /\ bookmarkApi.outcome.ok
              /\ IF bookmarkApi.fn = "isBookmarked"
                 THEN v \in {Bool(TRUE), Bool(FALSE)}
                 ELSE v.success \/ (~v.success /\ v.error # "")
              /\ NoUser =>
                    /\ bookmarkApi.inserts = 0
                    /\ bookmarkApi.deletes = 0
                    /\ IF bookmarkApi.fn = "isBookmarked"
                       THEN v = Bool(FALSE)
                       ELSE ~v.success

C26_Settles ==
    (NoUser /\ bookmarkApi.pc = "Running" /\ bookmarkApi'.pc # "Running") =>
        db' = db

C26_NeverThrowsNoWriteWithoutUser == []C26_Returned /\ [][C26_Settles]_vars

C26_Witness ==
    /\ bookmarkApi.pc = "Returned"
    /\ bookmarkApi.fn = "addBookmark"
    /\ db.userId # Null
    /\ ~db.userRow
    /\ bookmarkApi.outcome.value = Failure("user not found")
    /\ bookmarkApi.inserts = 0

(***************************************************************************)
(* bookmark-button.tsx: BookmarkButton.  Its state is the three useState   *)
(* values; a server action it awaits either runs at the database and       *)
(* returns, or its call rejects before it runs ("rejects").                *)
(***************************************************************************)
ClientFaults == Faults \cup {"rejects"}

BookmarkButtonInit ==
    /\ ApiIdle
    /\ db \in Dbs
    /\ \E contentId \in ContentIds :
        bookmarkButton = [contentId |-> contentId, isSignedIn |-> db.userId # Null,
                          bookmarked |-> FALSE, loading |-> TRUE,
                          isUpdating |-> FALSE, pc |-> "Mounted"]
    /\ stats = NotMounted
    /\ bookmarkApi = NotMounted
    /\ bookmarksClient = NotMounted
    /\ tourFilters = NotMounted
    /\ syncUser = NotMounted
    /\ nav = NotMounted

bookmarkButtonFrame ==
    <<apiVars, stats, bookmarkApi, bookmarksClient, tourFilters, syncUser, nav>>

\* useEffect after mount: nothing to check when signed out, else
\* checkBookmark() is started
BookmarkButtonEffect ==
    /\ bookmarkButton.pc = "Mounted"
    /\ IF ~bookmarkButton.isSignedIn
       THEN bookmarkButton' = [bookmarkButton EXCEPT !.loading = FALSE, !.pc = "Ready"]
       ELSE bookmarkButton' = [bookmarkButton EXCEPT !.pc = "Checking"]
    /\ UNCHANGED <<db, bookmarkButtonFrame>>

\* "await isBookmarked(contentId)" settles
CheckBookmarkSettles ==
    /\ bookmarkButton.pc = "Checking"
    /\ \E fault \in ClientFaults :
        IF fault = "rejects"
        THEN bookmarkButton' = [bookmarkButton EXCEPT !.loading = FALSE, !.pc = "Ready"]
        ELSE LET ran == isBookmarked(db, bookmarkButton.contentId, fault)
             IN  bookmarkButton' = [bookmarkButton EXCEPT
                                      !.bookmarked = ran.outcome.value.b,
                                      !.loading = FALSE,
                                      !.pc = "Ready"]
    /\ UNCHANGED <<db, bookmarkButtonFrame>>

\* a click on the enabled button: handleToggle up to its await
HandleToggle ==
    /\ bookmarkButton.pc = "Ready"
    /\ bookmarkButton.isSignedIn
    /\ ~bookmarkButton.loading
    /\ ~bookmarkButton.isUpdating
    /\ bookmarkButton' = [bookmarkButton EXCEPT !.isUpdating = TRUE, !.pc = "Toggling"]
    /\ UNCHANGED <<db, bookmarkButtonFrame>>

\* "await removeBookmark(contentId)" or "await addBookmark(contentId)"
\* settles: the rest of handleToggle
ToggleSettles ==
    /\ bookmarkButton.pc = "Toggling"
    /\ \E fault \in ClientFaults :
        IF fault = "rejects"
        THEN /\ bookmarkButton' = [bookmarkButton EXCEPT !.isUpdating = FALSE, !.pc = "Ready"]
             /\ UNCHANGED db
        ELSE LET ran == IF bookmarkButton.bookmarked
                        THEN removeBookmark(db, bookmarkButton.contentId, fault)
                        ELSE addBookmark(db, bookmarkButton.contentId, fault)
             IN  /\ db' = [db EXCEPT !.bookmarks = ran.rows]
                 /\ bookmarkButton' = [bookmarkButton EXCEPT
                        !.bookmarked = IF ran.outcome.value.success
                                       THEN ~bookmarkButton.bookmarked
                                       ELSE bookmarkButton.bookmarked,
                        !.isUpdating = FALSE,
                        !.pc = "Ready"]
    /\ UNCHANGED bookmarkButtonFrame

BookmarkButtonElsewhere ==
    /\ BookmarkChangedElsewhere
    /\ UNCHANGED <<bookmarkButton, bookmarkButtonFrame>>

\* useAuth() reports a sign-in or a sign-out: the component renders with
\* the new isSignedIn and the effect (deps [contentId, isSignedIn]) is due
BookmarkButtonAuthChanged ==
    /\ bookmarkButton.pc = "Ready"
    /\ db' = [db EXCEPT !.userId = IF @ = Null THEN Str(<<"u", "1">>) ELSE Null]
    /\ bookmarkButton' = [bookmarkButton EXCEPT !.isSignedIn = ~@, !.pc = "Mounted"]
    /\ UNCHANGED bookmarkButtonFrame

BookmarkButtonNext ==
    \/ BookmarkButtonEffect
    \/ CheckBookmarkSettles
    \/ HandleToggle
    \/ ToggleSettles
    \/ BookmarkButtonElsewhere
    \/ BookmarkButtonAuthChanged

BookmarkButtonSpec == BookmarkButtonInit /\ [][BookmarkButtonNext]_vars

(***************************************************************************)
(* C23.  For a signed-in user a click deletes the bookmark when it is in   *)
(* the store and creates it when it is not, and when a click has completed *)
(* (with success or failure, also when the store was changed elsewhere     *)
(* since the button loaded) the star is filled exactly when the bookmark   *)
(* is in the store.                                                        *)
(***************************************************************************)
C23_ClickCompletes ==
    (bookmarkButton.pc = "Toggling" /\ bookmarkButton'.pc = "Ready") =>
        (bookmarkButton'.bookmarked <=> Has(db'.bookmarks, bookmarkButton.contentId))

C23_StarShowsStore == [][C23_ClickCompletes]_vars

(***************************************************************************)
(* bookmarks-client.tsx: BookmarksClient.  tours is the displayed list     *)
(* (content ids, from initialTours), selectedIds the checked ones.  A      *)
(* batch delete holds the selectedIds it was started with (captured) and   *)
(* one removeBookmark promise per id: "pending", "removed" (success),      *)
(* "failed" (success:false) or "rejected".                                 *)
(***************************************************************************)
BookmarksClientInit ==
    /\ ApiIdle
    /\ db \in {d \in Dbs : d.userId # Null /\ d.userRow}
    /\ bookmarksClient = [tours |-> Reverse(db.bookmarks), selectedIds |-> {},
                          isDeleting |-> FALSE, pc |-> "Idle", captured |-> {},
                          promises |-> [id \in {} |-> "pending"], deleting |-> {}]
    /\ stats = NotMounted
    /\ bookmarkApi = NotMounted
    /\ bookmarkButton = NotMounted
    /\ tourFilters = NotMounted
    /\ syncUser = NotMounted
    /\ nav = NotMounted

bookmarksClientFrame ==
    <<apiVars, stats, bookmarkApi, bookmarkButton, tourFilters, syncUser, nav>>

\* toggleSelect(contentId): a checkbox of a displayed tour
ToggleSelect ==
    /\ \E contentId \in ContentIds :
        /\ Has(bookmarksClient.tours, contentId)
        /\ bookmarksClient' = [bookmarksClient EXCEPT !.selectedIds =
              IF contentId \in @ THEN @ \ {contentId} ELSE @ \cup {contentId}]
    /\ UNCHANGED <<db, bookmarksClientFrame>>

\* toggleSelectAll
ToggleSelectAll ==
    /\ bookmarksClient.tours # <<>>
    /\ bookmarksClient' = [bookmarksClient EXCEPT !.selectedIds =
          IF Cardinality(@) = Len(bookmarksClient.tours)
          THEN {}
          ELSE {bookmarksClient.tours[i] : i \in DOMAIN bookmarksClient.tours}]
    /\ UNCHANGED <<db, bookmarksClientFrame>>

\* handleBatchDelete, confirmed, up to "await Promise.all(deletePromises)"
HandleBatchDelete ==
    /\ bookmarksClient.pc = "Idle"
    /\ ~bookmarksClient.isDeleting
    /\ bookmarksClient.selectedIds # {}
    /\ bookmarksClient' = [bookmarksClient EXCEPT
          !.isDeleting = TRUE,
          !.pc = "AwaitAll",
          !.captured = bookmarksClient.selectedIds,
          !.promises = [id \in bookmarksClient.selectedIds |-> "pending"]]
    /\ UNCHANGED <<db, bookmarksClientFrame>>

\* "await removeBookmark(contentId)" of one promise of the batch settles
BatchRemoveSettles ==
    /\ bookmarksClient.pc = "AwaitAll"
    /\ \E contentId \in DOMAIN bookmarksClient.promises, fault \in ClientFaults :
        /\ bookmarksClient.promises[contentId] = "pending"
        /\ IF fault = "rejects"
           THEN /\ bookmarksClient' = [bookmarksClient EXCEPT
                                         !.promises[contentId] = "rejected"]
                /\ UNCHANGED db
           ELSE LET ran == removeBookmark(db, contentId, fault)
                IN  /\ db' = [db EXCEPT !.bookmarks = ran.rows]
                    /\ bookmarksClient' = [bookmarksClient EXCEPT
                          !.promises[contentId] =
                              IF ran.outcome.value.success THEN "removed" ELSE "failed"]
    /\ UNCHANGED bookmarksClientFrame

\* Promise.all settles: it rejects with the first rejected promise (catch:
\* alert), or resolves when every promise has (setTours, setSelectedIds,
\* router.refresh()); finally setIsDeleting(false)
BatchDeleteCompletes ==
    /\ bookmarksClient.pc = "AwaitAll"
    /\ LET promises == bookmarksClient.promises
       IN  IF \E id \in DOMAIN promises : promises[id] = "rejected"
           THEN bookmarksClient' = [bookmarksClient EXCEPT
                                      !.isDeleting = FALSE, !.pc = "Idle"]
           ELSE /\ \A id \in DOMAIN promises : promises[id] # "pending"
                /\ bookmarksClient' = [bookmarksClient EXCEPT
                      !.tours = SelectSeq(@, LAMBDA id : id \notin bookmarksClient.captured),
                      !.selectedIds = {},
                      !.isDeleting = FALSE,
                      !.pc = "Idle"]
    /\ UNCHANGED <<db, bookmarksClientFrame>>

\* handleDelete(contentId), confirmed, up to "await removeBookmark(contentId)"
HandleDelete ==
    /\ \E contentId \in ContentIds :
        /\ Has(bookmarksClient.tours, contentId)
        /\ contentId \notin bookmarksClient.deleting
        /\ bookmarksClient' = [bookmarksClient EXCEPT !.deleting = @ \cup {contentId}]
    /\ UNCHANGED <<db, bookmarksClientFrame>>

\* the removeBookmark of a handleDelete settles: the tour leaves the list
\* only on success
DeleteSettles ==
    /\ \E contentId \in bookmarksClient.deleting, fault \in ClientFaults :
        IF fault = "rejects"
        THEN /\ bookmarksClient' = [bookmarksClient EXCEPT !.deleting = @ \ {contentId}]
             /\ UNCHANGED db
        ELSE LET ran == removeBookmark(db, contentId, fault)
             IN  /\ db' = [db EXCEPT !.bookmarks = ran.rows]
                 /\ bookmarksClient' = [bookmarksClient EXCEPT
                       !.deleting = @ \ {contentId},
                       !.tours = IF ran.outcome.value.success
                                 THEN SelectSeq(@, LAMBDA id : id # contentId)
                                 ELSE @]
    /\ UNCHANGED bookmarksClientFrame

BookmarksClientNext ==
    \/ ToggleSelect
    \/ ToggleSelectAll
    \/ HandleBatchDelete
    \/ BatchRemoveSettles
    \/ BatchDeleteCompletes
    \/ HandleDelete
    \/ DeleteSettles

BookmarksClientSpec == BookmarksClientInit /\ [][BookmarksClientNext]_vars

(***************************************************************************)
(* C27.  When handleBatchDelete completes, a tour has left the displayed   *)
(* list only if removeBookmark succeeded for its contentId, tours whose    *)
(* removal failed are still in the list, and isDeleting is false again.    *)
(***************************************************************************)
C27_BatchCompletes ==
    (bookmarksClient.pc = "AwaitAll" /\ bookmarksClient'.pc = "Idle") =>
        /\ ~bookmarksClient'.isDeleting
        /\ \A id \in ContentIds :
              (Has(bookmarksClient.tours, id) /\ ~Has(bookmarksClient'.tours, id)) =>
                  (id \in DOMAIN bookmarksClient.promises
                     /\ bookmarksClient.promises[id] = "removed")

C27_OnlyRemovedLeaveList == [][C27_BatchCompletes]_vars

(***************************************************************************)
(* The list criteria in the URL: tour-filters.tsx (TourFilters),           *)
(* tour-search.tsx (TourSearch), tour-sort.tsx (TourSort) and              *)
(* tour-pagination.tsx (TourPagination).  nav.searchParams is the query of *)
(* the current URL, one value per key; router.push makes the pushed query  *)
(* the current one.  nav.keyword is the input state of TourSearch and      *)
(* nav.totalPages the prop of TourPagination; its currentPage prop is the  *)
(* page parameter as app/page.tsx parses it.                               *)
(***************************************************************************)
ParamNames ==
    {"areaCode", "sigunguCode", "contentTypeId", "petFriendly", "parkingAvailable",
     "keyword", "sort", "page"}

\* the values a key takes in the model; keyword and page are strings of
\* characters
ParamValuesOf(key) ==
    CASE key = "areaCode" -> {"1", "2"}
      [] key = "sigunguCode" -> {"1"}
      [] key = "contentTypeId" -> {"12"}
      [] key = "petFriendly" -> {"true"}
      [] key = "parkingAvailable" -> {"true"}
      [] key = "keyword" -> {<<"a">>}
      [] key = "sort" -> {"name-asc", "name-desc"}
      [] key = "page" -> {<<"2">>}

\* searchParams.get(key) !== null
HasParam(params, key) == key \in DOMAIN params

\* params.set(key, value)
SetParam(params, key, value) ==
    [k \in DOMAIN params \cup {key} |-> IF k = key THEN value ELSE params[k]]

\* params.delete(key)
DeleteParam(params, key) == [k \in DOMAIN params \ {key} |-> params[k]]

\* parseInt(params.page || "1", 10) of a string of decimal digits
RECURSIVE ParseInt(_)
ParseInt(digits) ==
    IF digits = <<>> THEN 0
    ELSE 10 * ParseInt(SubSeq(digits, 1, Len(digits) - 1))
         + (CHOOSE d \in 0..9 : DigitChar(d) = digits[Len(digits)])

CurrentPage(params) == IF HasParam(params, "page") THEN ParseInt(params["page"]) ELSE 1

\* router.push(`/?${params.toString()}`): the page renders with the pushed
\* query, and the effect of TourSearch copies its keyword to the input
Push(params) ==
    nav' = [nav EXCEPT
              !.searchParams = params,
              !.keyword = IF HasParam(params, "keyword") THEN params["keyword"] ELSE <<>>]

navFrame ==
    <<apiVars, stats, db, bookmarkApi, bookmarkButton, bookmarksClient,
      tourFilters, syncUser>>

\* a handleFilterChange that keeps the page parameter
HandleFilterChange_KeepPage(key, value) ==
    LET params == nav.searchParams
        changed == IF value = "" \/ value = "all"
                   THEN DeleteParam(params, key)
                   ELSE SetParam(params, key, value)
        cleared == IF key = "areaCode" THEN DeleteParam(changed, "sigunguCode")
                   ELSE changed
    IN  Push(cleared) /\ UNCHANGED navFrame

\* TourFilters.handleFilterChange(key, value)
HandleFilterChange(key, value) ==
    LET params == nav.searchParams
        changed == IF value = "" \/ value = "all"
                   THEN DeleteParam(params, key)
                   ELSE SetParam(params, key, value)
        cleared == IF key = "areaCode" THEN DeleteParam(changed, "sigunguCode")
                   ELSE changed
    IN  Push(DeleteParam(cleared, "page")) /\ UNCHANGED navFrame

\* TourFilters.handlePetFriendlyToggle and handleParkingToggle
HandleToggleParam(key) ==
    LET params == nav.searchParams
        on == HasParam(params, key) /\ params[key] = "true"
        changed == IF on THEN DeleteParam(params, key) ELSE SetParam(params, key, "true")
    IN  Push(DeleteParam(changed, "page")) /\ UNCHANGED navFrame

\* TourFilters.handleReset
HandleReset ==
    Push([k \in {} |-> ""]) /\ UNCHANGED navFrame

\* the user types in the search box: setKeyword(e.target.value)
SetKeyword(typed) ==
    nav' = [nav EXCEPT !.keyword = typed] /\ UNCHANGED navFrame

\* TourSearch.handleSearch
HandleSearch ==
    LET params == nav.searchParams
        changed == IF Trim(nav.keyword) = <<>>
                   THEN DeleteParam(params, "keyword")
                   ELSE SetParam(params, "keyword", Trim(nav.keyword))
    IN  Push(DeleteParam(changed, "page")) /\ UNCHANGED navFrame

\* TourSearch.handleClear
HandleClear ==
    Push(DeleteParam(DeleteParam(nav.searchParams, "keyword"), "page"))
    /\ UNCHANGED navFrame

\* TourSort.handleSortChange(sort)
HandleSortChange(sort) ==
    LET params == nav.searchParams
        currentSort == IF HasParam(params, "sort") THEN params["sort"] ELSE "latest"
        changed == IF sort = "latest" THEN DeleteParam(params, "sort")
                   ELSE IF sort = "name-asc"
                   THEN IF currentSort = "name-asc"
                        THEN SetParam(params, "sort", "name-desc")
                        ELSE SetParam(params, "sort", "name-asc")
                   ELSE SetParam(params, "sort", "name-asc")
    IN  Push(DeleteParam(changed, "page")) /\ UNCHANGED navFrame

\* TourPagination.handlePageChange(page)
HandlePageChange(page) ==
    /\ ~(page < 1 \/ page > nav.totalPages)
    /\ Push(IF page = 1 THEN DeleteParam(nav.searchParams, "page")
            ELSE SetParam(nav.searchParams, "page", ToDecimal(page)))
    /\ UNCHANGED navFrame

FilterKeys == {"areaCode", "sigunguCode", "contentTypeId"}

ToggleKeys == {"petFriendly", "parkingAvailable"}

SortOptions == {"latest", "name-asc", "name-desc"}

TypedKeywords == {<<>>, <<" ">>, <<"a">>, <<" ", "a">>}

\* the queries the page can be opened with
RECURSIVE QueriesOver(_)
QueriesOver(K) ==
    IF K = {} THEN {[k \in {} |-> ""]}
    ELSE LET key == CHOOSE k \in K : TRUE
             rest == QueriesOver(K \ {key})
         IN  rest \cup {SetParam(f, key, v) : f \in rest, v \in ParamValuesOf(key)}

SearchParamsSets == QueriesOver(ParamNames)

\* the user is on the second page of a list, under any criteria
NavInit ==
    /\ ApiIdle
    /\ \E params \in {q \in SearchParamsSets : HasParam(q, "page")} :
        nav = [searchParams |-> params,
               keyword |-> IF HasParam(params, "keyword") THEN params["keyword"] ELSE <<>>,
               totalPages |-> 2]
    /\ stats = NotMounted
    /\ db = NotMounted
    /\ bookmarkApi = NotMounted
    /\ bookmarkButton = NotMounted
    /\ bookmarksClient = NotMounted
    /\ tourFilters = NotMounted
    /\ syncUser = NotMounted

FilterChanged ==
    \E key \in FilterKeys :
        \E value \in {"", "all"} \cup ParamValuesOf(key) :
            HandleFilterChange(key, value)

ParamToggled == \E key \in ToggleKeys : HandleToggleParam(key)

KeywordTyped == \E typed \in TypedKeywords : SetKeyword(typed)

SortChanged == \E sort \in SortOptions : HandleSortChange(sort)

PageChanged == \E page \in 0..(MaxPages + 1) : HandlePageChange(page)

NavNext ==
    \/ FilterChanged
    \/ ParamToggled
    \/ HandleReset
    \/ KeywordTyped
    \/ HandleSearch
    \/ HandleClear
    \/ SortChanged
    \/ PageChanged

NavSpec == NavInit /\ [][NavNext]_vars

(***************************************************************************)
(* C24.  Every change of the list criteria (handleFilterChange, the        *)
(* pet-friendly and parking toggles, handleSearch, handleClear,            *)
(* handleSortChange) navigates to a URL without a page parameter and       *)
(* leaves every parameter other than the changed one as it was, except     *)
(* that a change of areaCode also removes sigunguCode.                     *)
(***************************************************************************)
\* the step leaves every parameter outside keys as it was, and the new URL
\* has no page parameter
ChangesOnly(keys) ==
    /\ ~HasParam(nav'.searchParams, "page")
    /\ \A k \in ParamNames \ (keys \cup {"page"}) :
          /\ HasParam(nav'.searchParams, k) <=> HasParam(nav.searchParams, k)
          /\ HasParam(nav.searchParams, k) =>
                (nav'.searchParams[k] = nav.searchParams[k])

C24_Step ==
    /\ \A key \in FilterKeys :
          \A value \in {"", "all"} \cup ParamValuesOf(key) :
              HandleFilterChange(key, value) =>
                  /\ ChangesOnly(IF key = "areaCode" THEN {key, "sigunguCode"} ELSE {key})
                  /\ (key = "areaCode") => ~HasParam(nav'.searchParams, "sigunguCode")
    /\ \A key \in ToggleKeys : HandleToggleParam(key) => ChangesOnly({key})
    /\ HandleSearch => ChangesOnly({"keyword"})
    /\ HandleClear => ChangesOnly({"keyword"})
    /\ \A sort \in SortOptions : HandleSortChange(sort) => ChangesOnly({"sort"})

C24_CriteriaChangeResetsPage == [][C24_Step]_vars

C24_Witness ==
    /\ nav.searchParams = [areaCode |-> "2", contentTypeId |-> "12", sort |-> "name-desc",
                           keyword |-> <<"a">>]
    /\ nav.keyword = <<" ", "a">>

(***************************************************************************)
(* tour-pagination.tsx: the page numbers TourPagination renders.  The      *)
(* component is rendered for totalPages > 1; the list is opened on its     *)
(* first page and every other page is reached through handlePageChange.    *)
(***************************************************************************)
Ellipsis == [t |-> "ellipsis"]

\* for (let i = a; i <= b; i++) pages.push(i)
Pages(a, b) == [i \in 1..(b - a + 1) |-> Num(a + i - 1)]

\* getPageNumbers without its branch for the last pages
getPageNumbers_NoBackBranch(currentPage, totalPages) ==
    IF totalPages <= 5 THEN Pages(1, totalPages)
    ELSE IF currentPage <= 3
    THEN Pages(1, 4) \o <<Ellipsis, Num(totalPages)>>
    ELSE <<Num(1), Ellipsis>> \o Pages(currentPage - 1, currentPage + 1)
         \o <<Ellipsis, Num(totalPages)>>

getPageNumbers(currentPage, totalPages) ==
    IF totalPages <= 5 THEN Pages(1, totalPages)
    ELSE IF currentPage <= 3
    THEN Pages(1, 4) \o <<Ellipsis, Num(totalPages)>>
    ELSE IF currentPage >= totalPages - 2
    THEN <<Num(1), Ellipsis>> \o Pages(totalPages - 3, totalPages)
    ELSE <<Num(1), Ellipsis>> \o Pages(currentPage - 1, currentPage + 1)
         \o <<Ellipsis, Num(totalPages)>>

PaginationInit ==
    /\ ApiIdle
    /\ \E params \in QueriesOver({"keyword", "sort"}), totalPages \in 2..MaxPages :
        nav = [searchParams |-> params,
               keyword |-> IF HasParam(params, "keyword") THEN params["keyword"] ELSE <<>>,
               totalPages |-> totalPages]
    /\ stats = NotMounted
    /\ db = NotMounted
    /\ bookmarkApi = NotMounted
    /\ bookmarkButton = NotMounted
    /\ bookmarksClient = NotMounted
    /\ tourFilters = NotMounted
    /\ syncUser = NotMounted

PaginationSpec == PaginationInit /\ [][PageChanged]_vars

(***************************************************************************)
(* C30.  For every totalPages >= 2 and currentPage in 1..totalPages the    *)
(* page numbers of getPageNumbers are strictly increasing, include 1,      *)
(* totalPages and currentPage, are at most 5, and an ellipsis stands only  *)
(* between two numbers that are not adjacent; handlePageChange navigates   *)
(* only to pages in 1..totalPages.                                         *)
(***************************************************************************)
C30_PageNumbers ==
    LET currentPage == CurrentPage(nav.searchParams)
        pages == getPageNumbers(currentPage, nav.totalPages)
        numbers == SelectSeq(pages, LAMBDA x : x.t = "number")
    IN  /\ currentPage \in 1..nav.totalPages
        /\ \A i \in 1..(Len(numbers) - 1) : numbers[i].n < numbers[i + 1].n
        /\ \A n \in {1, currentPage, nav.totalPages} :
              \E i \in DOMAIN numbers : numbers[i].n = n
        /\ Len(numbers) <= 5
        /\ \A k \in DOMAIN pages :
              (pages[k] = Ellipsis) =>
                  /\ 1 < k /\ k < Len(pages)
                  /\ pages[k - 1].t = "number" /\ pages[k + 1].t = "number"
                  /\ pages[k + 1].n - pages[k - 1].n >= 2

C30_Witness ==
    /\ nav.totalPages = 8
    /\ CurrentPage(nav.searchParams) = 5
    /\ getPageNumbers(5, 8) =
          <<Num(1), Ellipsis, Num(4), Num(5), Num(6), Ellipsis, Num(8)>>

(***************************************************************************)
(* tour-filters.tsx: the effect of TourFilters that loads the sigungu list *)
(* of the selected areaCode.  The effect runs at mount and whenever        *)
(* currentAreaCode changes; it has no cleanup, so the continuation of      *)
(* every request it started runs when that request settles.                *)
(***************************************************************************)
SelectableAreaCodes == {"1", "2"}

\* what getAreaCode(areaCode) answers for a sido
SigunguCodesOf(areaCode) == Arr(<<[areaCode |-> areaCode, code |-> "1"]>>)

\* getSigunguCodes: the codes, or null when getAreaCode threw
SigunguResults(areaCode) == {SigunguCodesOf(areaCode), Null}

\* if (codes) setSigunguCodes(codes) else setSigunguCodes([])
Displayed(codes) == IF codes = Null THEN Arr(<<>>) ELSE codes

PendingRequests(tf) == {i \in DOMAIN tf.requests : ~tf.requests[i].settled}

\* the body of the effect for the areaCode of the current render
SigunguEffect(tf, areaCode) ==
    IF areaCode # ""
    THEN [tf EXCEPT !.currentAreaCode = areaCode,
                    !.loadingSigungu = TRUE,
                    !.requests = Append(@, [areaCode |-> areaCode,
                                            settled |-> FALSE,
                                            codes |-> Null])]
    ELSE [tf EXCEPT !.currentAreaCode = areaCode,
                    !.sigunguCodes = Arr(<<>>)]

TourFiltersInit ==
    /\ ApiIdle
    /\ \E areaCode \in SelectableAreaCodes \cup {""} :
        tourFilters = SigunguEffect([currentAreaCode |-> "",
                                     sigunguCodes |-> Arr(<<>>),
                                     loadingSigungu |-> FALSE,
                                     requests |-> <<>>], areaCode)
    /\ stats = NotMounted
    /\ db = NotMounted
    /\ bookmarkApi = NotMounted
    /\ bookmarkButton = NotMounted
    /\ bookmarksClient = NotMounted
    /\ syncUser = NotMounted
    /\ nav = NotMounted

tourFiltersFrame ==
    UNCHANGED <<apiVars, stats, db, bookmarkApi, bookmarkButton, bookmarksClient,
                syncUser, nav>>

\* the areaCode of the URL changes and the effect runs for the new value
AreaCodeChanged(areaCode) ==
    /\ areaCode # tourFilters.currentAreaCode
    /\ areaCode # "" => Len(tourFilters.requests) < MaxRequests
    /\ tourFilters' = SigunguEffect(tourFilters, areaCode)
    /\ tourFiltersFrame

\* a getSigunguCodes promise resolves: .then and .finally of its request
SigunguSettles(i) ==
    /\ i \in PendingRequests(tourFilters)
    /\ \E codes \in SigunguResults(tourFilters.requests[i].areaCode) :
        tourFilters' = [tourFilters EXCEPT
            !.requests[i].settled = TRUE,
            !.requests[i].codes = codes,
            !.sigunguCodes = Displayed(codes),
            !.loadingSigungu = FALSE]
    /\ tourFiltersFrame

TourFiltersNext ==
    \/ \E areaCode \in SelectableAreaCodes \cup {""} : AreaCodeChanged(areaCode)
    \/ \E i \in 1..MaxRequests : SigunguSettles(i)

TourFiltersSpec == TourFiltersInit /\ [][TourFiltersNext]_vars

(***************************************************************************)
(* C28.  Once every getSigunguCodes request has settled, the displayed     *)
(* sigungu list is the one returned for the currently selected areaCode    *)
(* (empty when none is selected) and loadingSigungu is false, whatever the *)
(* order in which the responses arrived.                                   *)
(***************************************************************************)
C28_SettledListIsCurrent ==
    PendingRequests(tourFilters) = {} =>
        /\ ~tourFilters.loadingSigungu
        /\ tourFilters.sigunguCodes =
              IF tourFilters.currentAreaCode = "" THEN Arr(<<>>)
              ELSE Displayed(tourFilters.requests[Len(tourFilters.requests)].codes)

(***************************************************************************)
(* use-sync-user.ts: useSyncUser.  isLoaded and userId come from useAuth() *)
(* (userId is null until Clerk has loaded and while signed out); the       *)
(* effect runs at mount and whenever one of the two changes.  requests     *)
(* lists the POST /api/sync-user requests in the order they were started,  *)
(* each with the user it was sent for and how it settled.                  *)
(***************************************************************************)
ClerkUsers == {Str(<<"u", "1">>), Str(<<"u", "2">>)}

AuthStates ==
    {a \in [isLoaded : BOOLEAN, userId : ClerkUsers \cup {Null}] :
        ~a.isLoaded => a.userId = Null}

SyncOutcomes == {"ok", "notOk", "rejects"}

Issued(su) == Len(su.requests)

Succeeded(su) == Cardinality({i \in DOMAIN su.requests : su.requests[i].state = "ok"})

\* the body of the effect for the auth state of the current render
SyncEffect(su, auth) ==
    LET rendered == [su EXCEPT !.isLoaded = auth.isLoaded, !.userId = auth.userId]
    IN  IF su.syncedRef \/ ~auth.isLoaded \/ auth.userId = Null
        THEN rendered
        ELSE [rendered EXCEPT
                !.requests = Append(@, [userId |-> auth.userId, state |-> "pending"])]

SyncUserInit ==
    /\ ApiIdle
    /\ \E auth \in AuthStates :
        syncUser = SyncEffect([isLoaded |-> FALSE, userId |-> Null,
                               syncedRef |-> FALSE, requests |-> <<>>], auth)
    /\ stats = NotMounted
    /\ db = NotMounted
    /\ bookmarkApi = NotMounted
    /\ bookmarkButton = NotMounted
    /\ bookmarksClient = NotMounted
    /\ tourFilters = NotMounted
    /\ nav = NotMounted

syncUserFrame ==
    UNCHANGED <<apiVars, stats, db, bookmarkApi, bookmarkButton, bookmarksClient,
                tourFilters, nav>>

\* useAuth() reports a new isLoaded or userId and the effect runs
SyncAuthChanged(auth) ==
    /\ auth # [isLoaded |-> syncUser.isLoaded, userId |-> syncUser.userId]
    /\ Issued(SyncEffect(syncUser, auth)) <= MaxRequests
    /\ syncUser' = SyncEffect(syncUser, auth)
    /\ syncUserFrame

\* "await fetch('/api/sync-user', { method: 'POST' })" of request i
\* settles: the rest of syncUser()
SyncSettles(i, outcome) ==
    /\ i \in DOMAIN syncUser.requests
    /\ syncUser.requests[i].state = "pending"
    /\ syncUser' = [syncUser EXCEPT
          !.requests[i].state = outcome,
          !.syncedRef = IF outcome = "ok" THEN TRUE ELSE @]
    /\ syncUserFrame

SyncUserNext ==
    \/ \E auth \in AuthStates : SyncAuthChanged(auth)
    \/ \E i \in 1..MaxRequests, outcome \in SyncOutcomes : SyncSettles(i, outcome)

SyncUserSpec == SyncUserInit /\ [][SyncUserNext]_vars

(***************************************************************************)
(* C29.  useSyncUser issues a POST only when auth is loaded and a user is  *)
(* signed in; once a sync request has succeeded no further request is      *)
(* issued; a failed request leaves the hook unsynced; and at most one      *)
(* successful sync is recorded.                                            *)
(***************************************************************************)
C29_Step ==
    /\ Issued(syncUser') > Issued(syncUser) =>
          /\ syncUser'.isLoaded
          /\ syncUser'.userId # Null
          /\ ~syncUser.syncedRef
          /\ Succeeded(syncUser) = 0
    /\ (\E i \in DOMAIN syncUser.requests :
            /\ syncUser.requests[i].state = "pending"
            /\ syncUser'.requests[i].state \in {"notOk", "rejects"}) =>
          syncUser'.syncedRef = syncUser.syncedRef
    /\ Succeeded(syncUser') <= 1

C29_SyncedAtMostOnce == [][C29_Step]_vars

=============================================================================
